---- MODULE Spec2Model ----
(***************************************************************************)
(* Auto-scaling group with warm pool, scaling policies and health checks   *)
(* (auto_scalling_group.py, warm_pool_asg.py, ec2*.py) and the security    *)
(* group traffic authorisation layer (security_group*.py, resource.py).    *)
(***************************************************************************)
EXTENDS Integers, Sequences, FiniteSets, TLC

VARIABLES
    cfg,        \* AutoScalingGroup constructor arguments (never reassigned)
    instances,  \* AutoScalingGroup.instances: list of instance objects
    warm_pool,  \* WarmPool: [instances: list of instance objects, state]
    obj,        \* the heap: instance object -> its fields
    scale_out_policies,  \* AutoScalingGroup.scale_out_policies
    scale_in_policies,   \* AutoScalingGroup.scale_in_policies
    now,        \* the last value time.time() returned
    last,       \* record of the last operation: name, returned instance, trace
    steps,      \* number of operations performed so far
    stopped,    \* whether stop() has been called on the group
    policy,     \* one ScalingPolicy called directly
    fired_at,   \* the time of the last call of should_scale that returned true
    call,       \* the last call of should_scale: arguments and result
    rule,       \* one SecurityGroupRule
    probe,      \* the last call of matches_traffic: arguments and result
    groups,     \* the SecurityGroups: id -> [inbound_rules, outbound_rules]
    attached,   \* Resource.security_groups: list of group ids
    query,      \* the last traffic put to the resource and its answers
    asg_state,  \* app.py: the group state persisted in asg_state.json
    loop,       \* app.py: the background thread running check_auto_scaling
    request,    \* app.py: the thread serving a manual scaling request
    wall,       \* app.py: the value of time.time()
    sg_rules,   \* app.py: the rules describe_security_group_rules returns
    open_ports, \* app.py: the open_ports of the last validation
    health_check, \* one HealthCheck called directly
    subject,    \* the instance that health check is applied to
    checks      \* the last call of check_instance, and the run of failed checks

asgVars == <<cfg, instances, warm_pool, obj, scale_out_policies, scale_in_policies,
             now, last, steps, stopped>>
policyVars == <<policy, fired_at, call>>
ruleVars == <<rule, probe>>
sgVars == <<groups, attached, query>>
httpVars == <<asg_state, loop, request, wall>>
portVars == <<sg_rules, open_ports>>
healthVars == <<health_check, subject, checks>>

vars == <<asgVars, policyVars, ruleVars, sgVars, httpVars, portVars, healthVars>>

-----------------------------------------------------------------------------
(* Bounds of the model *)

MaxSizeBound == 2      \* largest max_size drawn
MaxWarmPoolSize == 2   \* largest warm_pool_size drawn
MaxSteps == 3          \* operations performed on one group
MaxObj == 12           \* heap cells
MaxPolicies == 1       \* policies added to each of the two policy lists
MaxTime == 6           \* latest time passed to should_scale directly
AddrBits == 1          \* width of an IP address
MaxPort == 2           \* largest port number
MaxRules == 1          \* rules added to each rule list of a security group
MaxWall == 2           \* advances of the clock of the HTTP variant
MaxListed == 3         \* rules describe_security_group_rules returns

(* Program constants *)

DefaultThreshold == 2  \* HealthCheck(threshold=2)
LowLoad == 20
HighLoad == 85
ScaleOutThreshold == 70
ScaleInThreshold == 30
Cooldown == 2          \* the drivers' cooldown=60, in units of 30 s
Epoch == 4             \* time.time() at start-up, far beyond any cooldown

\* start() is not taken when it would grow the reserve beyond this length
MaxPoolLen == MaxWarmPoolSize + 1

\* the advances of the clock between two readings of time.time()
Delays == {0, Cooldown - 1, Cooldown}

-----------------------------------------------------------------------------
(* Instances: ec2.py, ec2_instance_with_metrics.py *)

ObjIds == 1..MaxObj
None == 0

Min(a, b) == IF a <= b THEN a ELSE b
Max(a, b) == IF a >= b THEN a ELSE b

\* A heap cell that holds no object.
DeadObj == [rid |-> <<"none", 0>>, status |-> "none", cpu |-> 0, hcc |-> 0,
            health |-> "none"]

\* the fields of the objects of a list, in list order
Fields(ob, seq) == [i \in 1..Len(seq) |-> ob[seq[i]]]

\* EC2InstanceWithMetrics.__init__ on top of EC2Instance.__init__
NewInstance(rid) == [rid |-> rid, status |-> "stopped", cpu |-> 0, hcc |-> 0,
                     health |-> "healthy"]

Range(seq) == {seq[i] : i \in 1..Len(seq)}

\* list.remove(x): drops the first element equal to x
ListRemove(seq, x) ==
    LET i == CHOOSE k \in 1..Len(seq) :
                 seq[k] = x /\ \A j \in 1..(k - 1) : seq[j] # x
    IN SubSeq(seq, 1, i - 1) \o SubSeq(seq, i + 1, Len(seq))

\* the orders random.shuffle can leave a list in
RECURSIVE Orders(_)
Orders(idx) ==
    IF idx = {} THEN {<<>>}
    ELSE UNION {{<<i>> \o r : r \in Orders(idx \ {i})} : i \in idx}

Shuffles(seq) == {[k \in 1..Len(seq) |-> seq[p[k]]] : p \in Orders(1..Len(seq))}

\* allocation of a new object: a cell not used since the operation began
NewObj(s) == CHOOSE o \in ObjIds \ s.used : \A p \in ObjIds \ s.used : o <= p

-----------------------------------------------------------------------------
(* Warm pool: warm_pool_asg.py *)

HasWarmPool == cfg.warm_pool_size > 0

RECURSIVE WarmPoolInitialize(_, _)
WarmPoolInitialize(s, i) ==
    IF i >= cfg.warm_pool_size THEN [s EXCEPT !.pool.state = "ready"]
    ELSE LET o == NewObj(s)
         IN WarmPoolInitialize(
                [s EXCEPT !.obj[o] = NewInstance(<<"warm-instance", i + 1>>),
                          !.pool.instances = Append(@, o),
                          !.pool.state = "initializing",
                          !.used = @ \cup {o}], i + 1)

\* the removal loop of get_instances without instance.start()
RECURSIVE TakeFromPoolNotStarted(_, _)
TakeFromPoolNotStarted(s, sel) ==
    IF sel = <<>> THEN s
    ELSE TakeFromPoolNotStarted([s EXCEPT !.pool.instances = ListRemove(@, Head(sel))],
                                Tail(sel))

RECURSIVE TakeFromPool(_, _)
TakeFromPool(s, sel) ==
    IF sel = <<>> THEN s
    ELSE TakeFromPool([s EXCEPT !.pool.instances = ListRemove(@, Head(sel)),
                                !.obj[Head(sel)].status = "running"], Tail(sel))

\* get_instances that serves oldest_first from the end of the reserve
GetInstancesFromEnd(s, count) ==
    IF count <= 0 \/ s.pool.instances = <<>> THEN {<<s, <<>>>>}
    ELSE LET c == Min(count, Len(s.pool.instances))
             n == Len(s.pool.instances)
         IN IF cfg.instance_reuse_policy = "newest_first"
            THEN {<<TakeFromPool(s, SubSeq(s.pool.instances, 1, c)),
                    SubSeq(s.pool.instances, 1, c)>>}
            ELSE {<<TakeFromPool(s, SubSeq(s.pool.instances, n - c + 1, n)),
                    SubSeq(s.pool.instances, n - c + 1, n)>>}

\* get_instances that returns nothing unless more than one instance is asked for
GetInstancesMoreThanOne(s, count) ==
    IF count <= 1 \/ s.pool.instances = <<>> THEN {<<s, <<>>>>}
    ELSE LET c == Min(count, Len(s.pool.instances))
             n == Len(s.pool.instances)
         IN IF cfg.instance_reuse_policy = "oldest_first"
            THEN {<<TakeFromPool(s, SubSeq(s.pool.instances, 1, c)),
                    SubSeq(s.pool.instances, 1, c)>>}
            ELSE IF cfg.instance_reuse_policy = "newest_first"
            THEN {<<TakeFromPool(s, SubSeq(s.pool.instances, n - c + 1, n)),
                    SubSeq(s.pool.instances, n - c + 1, n)>>}
            ELSE {<<TakeFromPool([s EXCEPT !.pool.instances = p], SubSeq(p, 1, c)),
                    SubSeq(p, 1, c)>> : p \in Shuffles(s.pool.instances)}

\* WarmPool.get_instances: the set of <<state, returned list>> it can produce
GetInstances(s, count) ==
    IF count <= 0 \/ s.pool.instances = <<>> THEN {<<s, <<>>>>}
    ELSE LET c == Min(count, Len(s.pool.instances))
             n == Len(s.pool.instances)
         IN IF cfg.instance_reuse_policy = "oldest_first"
            THEN {<<TakeFromPool(s, SubSeq(s.pool.instances, 1, c)),
                    SubSeq(s.pool.instances, 1, c)>>}
            ELSE IF cfg.instance_reuse_policy = "newest_first"
            THEN {<<TakeFromPool(s, SubSeq(s.pool.instances, n - c + 1, n)),
                    SubSeq(s.pool.instances, n - c + 1, n)>>}
            ELSE {<<TakeFromPool([s EXCEPT !.pool.instances = p], SubSeq(p, 1, c)),
                    SubSeq(p, 1, c)>> : p \in Shuffles(s.pool.instances)}

\* add_instances that leaves the run-state of the instances as it is
RECURSIVE WarmPoolAddInstancesNotStopped(_, _)
WarmPoolAddInstancesNotStopped(s, xs) ==
    IF xs = <<>> THEN s
    ELSE WarmPoolAddInstancesNotStopped(
             [s EXCEPT !.pool.instances = Append(@, Head(xs))], Tail(xs))

\* WarmPool.add_instances
RECURSIVE WarmPoolAddInstances(_, _)
WarmPoolAddInstances(s, xs) ==
    IF xs = <<>> THEN s
    ELSE WarmPoolAddInstances(
             [s EXCEPT !.obj[Head(xs)].status = "stopped",
                       !.pool.instances = Append(@, Head(xs))], Tail(xs))

RECURSIVE MaintainLoop(_, _, _)
MaintainLoop(s, i, needed) ==
    IF i >= needed THEN s
    ELSE LET o == NewObj(s)
             rid == <<"warm-instance", Len(s.pool.instances) + i + 1>>
         IN MaintainLoop([s EXCEPT !.obj[o] = NewInstance(rid),
                                   !.pool.instances = Append(@, o),
                                   !.used = @ \cup {o}], i + 1, needed)

\* maintain_size that creates warm_pool.size instances whatever the pool holds
WarmPoolMaintainSizeRefilling(s) == MaintainLoop(s, 0, cfg.warm_pool_size)

\* WarmPool.maintain_size
WarmPoolMaintainSize(s) ==
    MaintainLoop(s, 0, Max(0, cfg.warm_pool_size - Len(s.pool.instances)))

RECURSIVE StopAll(_, _)
StopAll(ob, xs) ==
    IF xs = <<>> THEN ob
    ELSE StopAll([ob EXCEPT ![Head(xs)].status = "stopped"], Tail(xs))

\* WarmPool.stop that leaves the reserve list as it is
WarmPoolStopKeepingList(s) ==
    [s EXCEPT !.obj = StopAll(@, s.pool.instances), !.pool.state = "stopped"]

WarmPoolStop(s) ==
    [s EXCEPT !.obj = StopAll(@, s.pool.instances),
              !.pool = [instances |-> <<>>, state |-> "stopped"]]

-----------------------------------------------------------------------------
(* AutoScalingGroup: auto_scalling_group.py *)

\* the part of _add_instance that synthesizes an instance from the template
CreateInstance(s) ==
    LET o == NewObj(s)
        rid == <<"instance", Len(s.instances) + 1>>
    IN [s EXCEPT !.obj[o] = [NewInstance(rid) EXCEPT !.status = "running"],
                 !.instances = Append(@, o),
                 !.used = @ \cup {o},
                 !.ret = o]

\* _add_instance without the test against max_size
AddInstanceUnchecked(s) ==
    IF HasWarmPool /\ s.pool.instances # <<>>
    THEN {IF r[2] # <<>>
          THEN [r[1] EXCEPT !.instances = Append(@, r[2][1]), !.ret = r[2][1]]
          ELSE CreateInstance(r[1]) : r \in GetInstances(s, 1)}
    ELSE {CreateInstance(s)}

\* _add_instance that tests len(instances) > max_size
AddInstanceBeyondMax(s) ==
    IF Len(s.instances) > cfg.max_size THEN {[s EXCEPT !.ret = None]}
    ELSE IF HasWarmPool /\ s.pool.instances # <<>>
    THEN {[r[1] EXCEPT !.instances = Append(@, r[2][1]), !.ret = r[2][1]]
          : r \in GetInstances(s, 1)}
    ELSE {CreateInstance(s)}

\* _add_instance: the set of states it can produce (s.ret: the returned instance)
AddInstance(s) ==
    IF Len(s.instances) >= cfg.max_size THEN {[s EXCEPT !.ret = None]}
    ELSE IF HasWarmPool /\ s.pool.instances # <<>>
    THEN {IF r[2] # <<>>
          THEN [r[1] EXCEPT !.instances = Append(@, r[2][1]), !.ret = r[2][1]]
          ELSE CreateInstance(r[1]) : r \in GetInstances(s, 1)}
    ELSE {CreateInstance(s)}

\* the last of the instances with the lowest cpu
LowestLoadLatest(s) ==
    LET n == Len(s.instances)
        i == CHOOSE k \in 1..n :
                 /\ \A j \in 1..n : s.obj[s.instances[k]].cpu <= s.obj[s.instances[j]].cpu
                 /\ \A j \in (k + 1)..n :
                        s.obj[s.instances[j]].cpu > s.obj[s.instances[k]].cpu
    IN s.instances[i]

\* min(self.instances, key=cpu): the first of the instances with the lowest cpu
LowestLoad(s) ==
    LET n == Len(s.instances)
        i == CHOOSE k \in 1..n :
                 /\ \A j \in 1..n : s.obj[s.instances[k]].cpu <= s.obj[s.instances[j]].cpu
                 /\ \A j \in 1..(k - 1) :
                        s.obj[s.instances[j]].cpu > s.obj[s.instances[k]].cpu
    IN s.instances[i]

\* _remove_instance that tests len(instances) < min_size
RemoveInstanceBelowMin(s) ==
    IF Len(s.instances) < cfg.min_size \/ s.instances = <<>> THEN [s EXCEPT !.ret = None]
    ELSE LET x == LowestLoad(s)
             s1 == [s EXCEPT !.instances = ListRemove(@, x), !.ret = x]
         IN IF HasWarmPool /\ cfg.warm_pool_size > Len(s1.pool.instances)
            THEN WarmPoolAddInstances(s1, <<x>>)
            ELSE [s1 EXCEPT !.obj[x].status = "stopped"]

\* _remove_instance that hands the instance to the warm pool without taking it
\* off the active list
RemoveInstanceKeepingActive(s) ==
    IF Len(s.instances) <= cfg.min_size THEN [s EXCEPT !.ret = None]
    ELSE LET x == LowestLoad(s)
             s1 == [s EXCEPT !.ret = x]
         IN IF HasWarmPool /\ cfg.warm_pool_size > Len(s1.pool.instances)
            THEN WarmPoolAddInstances(s1, <<x>>)
            ELSE [s1 EXCEPT !.instances = ListRemove(@, x),
                            !.obj[x].status = "stopped"]

\* _remove_instance handing every removed instance to a configured warm pool
RemoveInstanceAlwaysPooled(s) ==
    IF Len(s.instances) <= cfg.min_size THEN [s EXCEPT !.ret = None]
    ELSE LET x == LowestLoad(s)
             s1 == [s EXCEPT !.instances = ListRemove(@, x), !.ret = x]
         IN IF HasWarmPool
            THEN WarmPoolAddInstances(s1, <<x>>)
            ELSE [s1 EXCEPT !.obj[x].status = "stopped"]

\* _remove_instance (s.ret: the returned instance)
RemoveInstance(s) ==
    IF Len(s.instances) <= cfg.min_size THEN [s EXCEPT !.ret = None]
    ELSE LET x == LowestLoad(s)
             s1 == [s EXCEPT !.instances = ListRemove(@, x), !.ret = x]
         IN IF HasWarmPool /\ cfg.warm_pool_size > Len(s1.pool.instances)
            THEN WarmPoolAddInstances(s1, <<x>>)
            ELSE [s1 EXCEPT !.obj[x].status = "stopped"]

\* HealthCheck(threshold=...)
HealthCheck(threshold) == [threshold |-> threshold]

\* check_instance declaring the instance unhealthy one failure late
CheckInstanceLate(hc, s, x) ==
    IF s.obj[x].status # "running"
    THEN LET c == s.obj[x].hcc + 1
         IN <<[s EXCEPT !.obj[x].hcc = c,
                        !.obj[x].health =
                            IF c > hc.threshold THEN "unhealthy" ELSE @],
              FALSE>>
    ELSE <<[s EXCEPT !.obj[x].hcc = 0, !.obj[x].health = "healthy"], TRUE>>

\* HealthCheck.check_instance: <<state, result>>
CheckInstanceOf(hc, s, x) ==
    IF s.obj[x].status # "running"
    THEN LET c == s.obj[x].hcc + 1
         IN <<[s EXCEPT !.obj[x].hcc = c,
                        !.obj[x].health =
                            IF c >= hc.threshold THEN "unhealthy" ELSE @],
              FALSE>>
    ELSE <<[s EXCEPT !.obj[x].hcc = 0, !.obj[x].health = "healthy"], TRUE>>

\* self.health_check.check_instance(instance), self.health_check = HealthCheck()
CheckInstance(s, x) == CheckInstanceOf(HealthCheck(DefaultThreshold), s, x)

RECURSIVE AddLoop(_, _)
AddLoop(s, k) ==
    IF k <= 0 THEN {s}
    ELSE UNION {AddLoop(s1, k - 1) : s1 \in AddInstance(s)}

\* start() that fills the warm pool after the active list
StartGroupPoolLast(s) ==
    {IF HasWarmPool THEN WarmPoolInitialize(s1, 0) ELSE s1
     : s1 \in AddLoop(s, cfg.desired_capacity)}

\* start()
StartGroup(s) ==
    AddLoop(IF HasWarmPool THEN WarmPoolInitialize(s, 0) ELSE s, cfg.desired_capacity)

\* check_health(): the list iterator yields instances[idx] while idx is in range
RECURSIVE CheckHealthFrom(_, _)
CheckHealthFrom(s, idx) ==
    IF idx > Len(s.instances) THEN {s}
    ELSE LET x == s.instances[idx]
             c == CheckInstance(s, x)
             n == Len(s.instances)
         IN IF c[2]
            THEN CheckHealthFrom(
                     [c[1] EXCEPT !.log = Append(@,
                          [x |-> x, ok |-> TRUE, removed |-> None, added |-> None,
                           n |-> n])], idx + 1)
            ELSE LET s1 == RemoveInstance(c[1])
                 IN UNION {CheckHealthFrom(
                               [s2 EXCEPT !.log = Append(@,
                                    [x |-> x, ok |-> FALSE, removed |-> s1.ret,
                                     added |-> s2.ret, n |-> n])], idx + 1)
                           : s2 \in AddInstance(s1)}

\* stop(); s.log: the instances that were active and their status afterwards
StopGroup(s) ==
    LET s1 == [s EXCEPT !.obj = StopAll(@, s.instances), !.instances = <<>>]
        s2 == IF HasWarmPool THEN WarmPoolStop(s1) ELSE s1
    IN [s2 EXCEPT !.log = [i \in 1..Len(s.instances) |->
                              [x |-> s.instances[i],
                               status |-> s2.obj[s.instances[i]].status]]]

\* simulate_traffic(base_load)
RECURSIVE SetLoad(_, _, _)
SetLoad(ob, xs, load) ==
    IF xs = <<>> THEN ob
    ELSE SetLoad([ob EXCEPT ![Head(xs)].cpu = load], Tail(xs), load)

-----------------------------------------------------------------------------
(* ScalingPolicy and evaluate_metrics: auto_scalling_group.py *)

\* ScalingPolicy.__init__
NewPolicy(threshold, adjustment, comparison, cooldown) ==
    [threshold |-> threshold, adjustment |-> adjustment, comparison |-> comparison,
     cooldown |-> cooldown, last_scaled_time |-> 0]

\* a metric value is the quotient v[1] / v[2] of two integers, v[2] > 0
Greater(v, threshold) == v[1] > threshold * v[2]
Less(v, threshold) == v[1] < threshold * v[2]

\* should_scale that records the time of every evaluation out of cooldown
ShouldScaleStampsEvaluation(p, v, t) ==
    IF t - p.last_scaled_time < p.cooldown THEN <<p, FALSE>>
    ELSE IF p.comparison = "greater" /\ Greater(v, p.threshold)
    THEN <<[p EXCEPT !.last_scaled_time = t], TRUE>>
    ELSE IF p.comparison = "less" /\ Less(v, p.threshold)
    THEN <<[p EXCEPT !.last_scaled_time = t], TRUE>>
    ELSE <<[p EXCEPT !.last_scaled_time = t], FALSE>>

\* should_scale that does not record the time of a firing
ShouldScaleNoStamp(p, v, t) ==
    IF t - p.last_scaled_time < p.cooldown THEN <<p, FALSE>>
    ELSE IF p.comparison = "greater" /\ Greater(v, p.threshold) THEN <<p, TRUE>>
    ELSE IF p.comparison = "less" /\ Less(v, p.threshold) THEN <<p, TRUE>>
    ELSE <<p, FALSE>>

\* should_scale that still holds the policy back when exactly cooldown has passed
ShouldScaleInclusiveCooldown(p, v, t) ==
    IF t - p.last_scaled_time <= p.cooldown THEN <<p, FALSE>>
    ELSE IF p.comparison = "greater" /\ Greater(v, p.threshold)
    THEN <<[p EXCEPT !.last_scaled_time = t], TRUE>>
    ELSE IF p.comparison = "less" /\ Less(v, p.threshold)
    THEN <<[p EXCEPT !.last_scaled_time = t], TRUE>>
    ELSE <<p, FALSE>>

\* ScalingPolicy.should_scale: <<policy afterwards, result>>
ShouldScale(p, v, t) ==
    IF t - p.last_scaled_time < p.cooldown THEN <<p, FALSE>>
    ELSE IF p.comparison = "greater" /\ Greater(v, p.threshold)
    THEN <<[p EXCEPT !.last_scaled_time = t], TRUE>>
    ELSE IF p.comparison = "less" /\ Less(v, p.threshold)
    THEN <<[p EXCEPT !.last_scaled_time = t], TRUE>>
    ELSE <<p, FALSE>>

RECURSIVE SumCpu(_, _)
SumCpu(ob, xs) == IF xs = <<>> THEN 0 ELSE ob[Head(xs)].cpu + SumCpu(ob, Tail(xs))

\* the mean cpu_utilization of the active instances, 0 when there is none
AvgCpu(s) ==
    IF s.instances # <<>> THEN <<SumCpu(s.obj, s.instances), Len(s.instances)>>
    ELSE <<0, 1>>

RECURSIVE RemoveLoop(_, _)
RemoveLoop(s, k) == IF k <= 0 THEN s ELSE RemoveLoop(RemoveInstance(s), k - 1)

\* the scale-out loop that gives a policy its cooldown back when it fired with
\* the group at max_size
RECURSIVE ScaleOutFromKeepingCooldown(_, _, _, _)
ScaleOutFromKeepingCooldown(s, i, avg, t) ==
    IF i > Len(s.out) THEN {s}
    ELSE LET r == ShouldScale(s.out[i], avg, t)
             kept == IF r[2] /\ Len(s.instances) >= cfg.max_size
                     THEN s.out[i] ELSE r[1]
             s1 == [s EXCEPT !.out[i] = kept,
                             !.fired = Append(@, [list |-> "out", i |-> i, v |-> avg,
                                                  fired |-> r[2]])]
         IN IF r[2]
            THEN UNION {ScaleOutFromKeepingCooldown(s2, i + 1, avg, t)
                        : s2 \in AddLoop(s1, s.out[i].adjustment)}
            ELSE ScaleOutFromKeepingCooldown(s1, i + 1, avg, t)

\* the scale-out loop with the mean taken anew for every policy
RECURSIVE ScaleOutFromCurrentMean(_, _, _, _)
ScaleOutFromCurrentMean(s, i, avg, t) ==
    IF i > Len(s.out) THEN {s}
    ELSE LET r == ShouldScale(s.out[i], AvgCpu(s), t)
             s1 == [s EXCEPT !.out[i] = r[1],
                             !.fired = Append(@, [list |-> "out", i |-> i,
                                                  v |-> AvgCpu(s), fired |-> r[2]])]
         IN IF r[2]
            THEN UNION {ScaleOutFromCurrentMean(s2, i + 1, avg, t)
                        : s2 \in AddLoop(s1, s.out[i].adjustment)}
            ELSE ScaleOutFromCurrentMean(s1, i + 1, avg, t)

\* evaluate_metrics(): the loop over scale_out_policies from the i-th on; a
\* s.fired entry is one call of should_scale: the list and place of the policy,
\* the mean passed and the result
RECURSIVE ScaleOutFrom(_, _, _, _)
ScaleOutFrom(s, i, avg, t) ==
    IF i > Len(s.out) THEN {s}
    ELSE LET r == ShouldScale(s.out[i], avg, t)
             s1 == [s EXCEPT !.out[i] = r[1],
                             !.fired = Append(@, [list |-> "out", i |-> i, v |-> avg,
                                                  fired |-> r[2]])]
         IN IF r[2]
            THEN UNION {ScaleOutFrom(s2, i + 1, avg, t)
                        : s2 \in AddLoop(s1, s.out[i].adjustment)}
            ELSE ScaleOutFrom(s1, i + 1, avg, t)

RECURSIVE ScaleInFrom(_, _, _, _)
ScaleInFrom(s, i, avg, t) ==
    IF i > Len(s.in) THEN s
    ELSE LET r == ShouldScale(s.in[i], avg, t)
             s1 == [s EXCEPT !.in[i] = r[1],
                             !.fired = Append(@, [list |-> "in", i |-> i, v |-> avg,
                                                  fired |-> r[2]])]
         IN IF r[2]
            THEN ScaleInFrom(RemoveLoop(s1, s.in[i].adjustment), i + 1, avg, t)
            ELSE ScaleInFrom(s1, i + 1, avg, t)

\* evaluate_metrics() at time t
EvaluateMetricsAt(s, t) ==
    LET avg == AvgCpu(s)
    IN {ScaleInFrom(s1, 1, avg, t) : s1 \in ScaleOutFrom(s, 1, avg, t)}

-----------------------------------------------------------------------------
(* The state machine of one group *)

\* the state an operation starts from
Cur == [instances |-> instances, pool |-> warm_pool, obj |-> obj,
        out |-> scale_out_policies, in |-> scale_in_policies,
        used |-> Range(instances) \cup Range(warm_pool.instances),
        ret |-> None, log |-> <<>>, fired |-> <<>>]

NoRet == [o |-> None, rid |-> <<"none", 0>>, status |-> "none"]

RetOf(s) == IF s.ret = None THEN NoRet
            ELSE [o |-> s.ret, rid |-> s.obj[s.ret].rid, status |-> s.obj[s.ret].status]

\* the objects of a list in order of first occurrence
RECURSIVE FirstOccurrences(_, _)
FirstOccurrences(seq, seen) ==
    IF seq = <<>> THEN seen
    ELSE FirstOccurrences(Tail(seq),
             IF Head(seq) \in Range(seen) THEN seen ELSE Append(seen, Head(seq)))

\* the cell an object is moved to when an operation ends: the objects still
\* referenced are numbered in the order the two lists reach them, the others
\* are dropped from the heap
Cell(order, o) == CHOOSE k \in 1..Len(order) : order[k] = o

\* the state an operation leaves; last.ret.o, last.log name the objects by the
\* cells they had while the operation ran
Settle(s, op) ==
    LET order == FirstOccurrences(s.instances \o s.pool.instances, <<>>)
    IN /\ stopped' = (stopped \/ op = "stop")
       /\ instances' = [i \in 1..Len(s.instances) |-> Cell(order, s.instances[i])]
       /\ warm_pool' = [s.pool EXCEPT !.instances =
              [i \in 1..Len(s.pool.instances) |-> Cell(order, s.pool.instances[i])]]
       /\ obj' = [k \in ObjIds |-> IF k <= Len(order) THEN s.obj[order[k]] ELSE DeadObj]
       /\ scale_out_policies' = s.out
       /\ scale_in_policies' = s.in
       /\ last' = [op |-> op, ret |-> RetOf(s), log |-> s.log, fired |-> s.fired,
                   n0 |-> Len(instances)]
       /\ UNCHANGED <<cfg, policyVars, ruleVars, sgVars, httpVars, portVars, healthVars>>

\* one more operation of a run of at most MaxSteps operations
Commit(s, op) ==
    /\ steps < MaxSteps
    /\ steps' = steps + 1
    /\ Settle(s, op)

ReusePolicies == {"oldest_first", "newest_first", "random"}

Configs ==
    {c \in [min_size : 1..MaxSizeBound, max_size : 1..MaxSizeBound,
            desired_capacity : 1..(MaxSizeBound + 1),
            warm_pool_size : 0..MaxWarmPoolSize,
            instance_reuse_policy : ReusePolicies] :
        /\ c.min_size <= c.max_size
        /\ (c.warm_pool_size = 0 => c.instance_reuse_policy = "oldest_first")}

ScaleOutPolicies ==
    {NewPolicy(ScaleOutThreshold, a, "greater", Cooldown) : a \in 1..2}

ScaleInPolicies == {NewPolicy(ScaleInThreshold, 1, "less", Cooldown)}

\* AutoScalingGroup.__init__
InitGroup ==
    /\ cfg \in Configs
    /\ instances = <<>>
    /\ warm_pool = [instances |-> <<>>, state |-> "stopped"]
    /\ obj = [o \in ObjIds |-> DeadObj]
    /\ scale_out_policies = <<>>
    /\ scale_in_policies = <<>>
    /\ now = Epoch
    /\ last = [op |-> "init", ret |-> NoRet, log |-> <<>>, fired |-> <<>>, n0 |-> 0]
    /\ steps = 0
    /\ stopped = FALSE

Start ==
    /\ steps < MaxSteps
    /\ Len(warm_pool.instances) + cfg.warm_pool_size <= MaxPoolLen
    /\ \E s \in StartGroup(Cur) : Commit(s, "start")
    /\ UNCHANGED now

Add ==
    /\ \E s \in AddInstance(Cur) : Commit(s, "add")
    /\ UNCHANGED now

Remove ==
    /\ Commit(RemoveInstance(Cur), "remove")
    /\ UNCHANGED now

CheckHealth ==
    /\ steps < MaxSteps
    /\ \E s \in CheckHealthFrom(Cur, 1) : Commit(s, "check_health")
    /\ UNCHANGED now

AddScaleOutPolicy ==
    /\ Len(scale_out_policies) < MaxPolicies
    /\ \E p \in ScaleOutPolicies :
           Commit([Cur EXCEPT !.out = Append(@, p)], "add_scale_out_policy")
    /\ UNCHANGED now

AddScaleInPolicy ==
    /\ Len(scale_in_policies) < MaxPolicies
    /\ \E p \in ScaleInPolicies :
           Commit([Cur EXCEPT !.in = Append(@, p)], "add_scale_in_policy")
    /\ UNCHANGED now

EvaluateMetrics ==
    /\ steps < MaxSteps
    /\ \E d \in Delays :
           /\ now' = now + d
           /\ \E s \in EvaluateMetricsAt(Cur, now + d) : Commit(s, "evaluate_metrics")

SimulateTraffic ==
    /\ \E load \in {LowLoad, HighLoad} :
           Commit([Cur EXCEPT !.obj = SetLoad(@, instances, load)], "simulate_traffic")
    /\ UNCHANGED now

\* the drivers' failure injection: instance.status = "stopped" on an active instance
FailInstance ==
    /\ \E i \in 1..Len(instances) :
           /\ obj[instances[i]].status = "running"
           /\ Commit([Cur EXCEPT !.obj[instances[i]].status = "stopped"], "fail")
    /\ UNCHANGED now

MaintainSize ==
    /\ HasWarmPool
    /\ Commit(WarmPoolMaintainSize(Cur), "maintain_size")
    /\ UNCHANGED now

Stop ==
    /\ Commit(StopGroup(Cur), "stop")
    /\ UNCHANGED now

-----------------------------------------------------------------------------
(* Traffic model and rules: security_group_rule.py *)

Protocols == {"TCP", "UDP", "ICMP", "ALL"}

\* an IP address: <<version, value>>
Addrs == {4, 6} \X (0..(2 ^ AddrBits - 1))

\* the CIDR blocks ipaddress.ip_network accepts: no host bit set
Cidrs ==
    {c \in [ver : {4, 6}, net : 0..(2 ^ AddrBits - 1), prefix : 0..AddrBits] :
        c.net % (2 ^ (AddrBits - c.prefix)) = 0}

\* IpRange.contains: ip_address(ip) in ip_network(cidr); an address is never in
\* a network of the other version
Contains(cidr, ip) ==
    /\ ip[1] = cidr.ver
    /\ ip[2] \div (2 ^ (AddrBits - cidr.prefix))
           = cidr.net \div (2 ^ (AddrBits - cidr.prefix))

RECURSIVE AnyContains(_, _)
AnyContains(ranges, ip) ==
    IF ranges = <<>> THEN FALSE
    ELSE IF Contains(Head(ranges), ip) THEN TRUE
    ELSE AnyContains(Tail(ranges), ip)

\* matches_traffic that takes the first CIDR block only
MatchesTrafficFirstRange(r, protocol, port, ip) ==
    IF r.protocol # protocol /\ r.protocol # "ALL" THEN FALSE
    ELSE LET port_match == (r.from_port <= port /\ port <= r.to_port) \/ r.from_port = -1
         IN IF port_match THEN Contains(r.ip_ranges[1], ip) ELSE FALSE

\* SecurityGroupRule.matches_traffic
MatchesTraffic(r, protocol, port, ip) ==
    IF r.protocol # protocol /\ r.protocol # "ALL" THEN FALSE
    ELSE LET port_match == (r.from_port <= port /\ port <= r.to_port) \/ r.from_port = -1
         IN IF port_match THEN AnyContains(r.ip_ranges, ip) ELSE FALSE

-----------------------------------------------------------------------------
(* Security groups and resources: security_group.py, resource.py *)

NewRule(protocol, from_port, to_port, cidr, is_egress) ==
    [protocol |-> protocol, from_port |-> from_port, to_port |-> to_port,
     ip_ranges |-> <<cidr>>, is_egress |-> is_egress]

Any4 == [ver |-> 4, net |-> 0, prefix |-> 0]     \* 0.0.0.0/0
Any6 == [ver |-> 6, net |-> 0, prefix |-> 0]     \* ::/0
Host4 == [ver |-> 4, net |-> 1, prefix |-> AddrBits]      \* one IPv4 host
Net4 == [ver |-> 4, net |-> 0, prefix |-> 1]     \* the lower half of IPv4

\* the rule SecurityGroup.__init__ adds
DefaultEgress == NewRule("ALL", -1, -1, Any4, TRUE)

\* SecurityGroup.__init__
NewSecurityGroup == [inbound_rules |-> <<>>, outbound_rules |-> <<DefaultEgress>>]

AddIngressRule(sg, protocol, from_port, to_port, cidr) ==
    [sg EXCEPT !.inbound_rules = Append(@, NewRule(protocol, from_port, to_port, cidr, FALSE))]

\* add_egress_rule that starts the egress list afresh
AddEgressRuleReplacing(sg, protocol, from_port, to_port, cidr) ==
    [sg EXCEPT !.outbound_rules = <<NewRule(protocol, from_port, to_port, cidr, TRUE)>>]

AddEgressRule(sg, protocol, from_port, to_port, cidr) ==
    [sg EXCEPT !.outbound_rules = Append(@, NewRule(protocol, from_port, to_port, cidr, TRUE))]

RECURSIVE AnyMatches(_, _, _, _)
AnyMatches(rules, protocol, port, ip) ==
    IF rules = <<>> THEN FALSE
    ELSE IF MatchesTraffic(Head(rules), protocol, port, ip) THEN TRUE
    ELSE AnyMatches(Tail(rules), protocol, port, ip)

\* SecurityGroup.allow_inbound_traffic
AllowInbound(sg, t) == AnyMatches(sg.inbound_rules, t.protocol, t.port, t.source_ip)

\* allow_outbound_traffic that looks at return traffic only
AllowOutboundStatefulOnly(sg, t) ==
    AllowInbound(sg, [source_ip |-> t.destination_ip,
                      destination_ip |-> t.source_ip,
                      protocol |-> t.protocol, port |-> t.port])

\* allow_outbound_traffic without the check for return traffic
AllowOutboundByRulesOnly(sg, t) ==
    AnyMatches(sg.outbound_rules, t.protocol, t.port, t.destination_ip)

\* SecurityGroup.allow_outbound_traffic
AllowOutbound(sg, t) ==
    LET reverse_traffic == [source_ip |-> t.destination_ip,
                            destination_ip |-> t.source_ip,
                            protocol |-> t.protocol, port |-> t.port]
    IN IF AllowInbound(sg, reverse_traffic) THEN TRUE
       ELSE AnyMatches(sg.outbound_rules, t.protocol, t.port, t.destination_ip)

RECURSIVE AnyAllowsInbound(_, _)
AnyAllowsInbound(sgs, t) ==
    IF sgs = <<>> THEN FALSE
    ELSE IF AllowInbound(groups[Head(sgs)], t) THEN TRUE
    ELSE AnyAllowsInbound(Tail(sgs), t)

RECURSIVE AnyAllowsOutbound(_, _)
AnyAllowsOutbound(sgs, t) ==
    IF sgs = <<>> THEN FALSE
    ELSE IF AllowOutbound(groups[Head(sgs)], t) THEN TRUE
    ELSE AnyAllowsOutbound(Tail(sgs), t)

\* can_receive_traffic that asks the first attached group only
CanReceiveTrafficFirstOnly(sgs, t) ==
    IF sgs = <<>> THEN FALSE ELSE AllowInbound(groups[Head(sgs)], t)

\* Resource.can_receive_traffic
CanReceiveTraffic(sgs, t) ==
    IF sgs = <<>> THEN FALSE ELSE AnyAllowsInbound(sgs, t)

\* Resource.can_send_traffic
CanSendTraffic(sgs, t) ==
    IF sgs = <<>> THEN FALSE ELSE AnyAllowsOutbound(sgs, t)

\* Resource.detach_security_group
RECURSIVE Detach(_, _)
Detach(sgs, id) ==
    IF sgs = <<>> THEN <<>>
    ELSE IF Head(sgs) # id THEN <<Head(sgs)>> \o Detach(Tail(sgs), id)
    ELSE Detach(Tail(sgs), id)

-----------------------------------------------------------------------------
(* The HTTP variant: app.py *)

\* the list [{'InstanceId': f'i-mock{i:03d}'} for i in range(n)], by its indices
MockInstances(n) == [i \in 1..n |-> i - 1]

\* get_asg_state: the state of 'app-asg' when no state file exists
DefaultState ==
    [DesiredCapacity |-> 2, MinSize |-> 1, MaxSize |-> 5,
     Instances |-> MockInstances(2), LastScalingTime |-> 0]

\* SCALING_CONFIG; times are in units of check_interval (60 s)
ScalingConfig ==
    [scale_out_threshold |-> 10, scale_in_threshold |-> 5, cooldown_period |-> 2]

\* check_auto_scaling that leaves the Instances list as it was when it scales
CheckAutoScalingKeepingInstances(asg, rpm, t) ==
    IF t - asg.LastScalingTime >= ScalingConfig.cooldown_period
    THEN IF rpm >= ScalingConfig.scale_out_threshold /\ asg.DesiredCapacity < asg.MaxSize
         THEN [asg EXCEPT !.DesiredCapacity = @ + 1, !.LastScalingTime = t]
         ELSE IF rpm <= ScalingConfig.scale_in_threshold
                 /\ asg.DesiredCapacity > asg.MinSize
         THEN [asg EXCEPT !.DesiredCapacity = @ - 1, !.LastScalingTime = t]
         ELSE asg
    ELSE asg

\* one pass of the loop of check_auto_scaling on the state it read: the state
\* it saves
CheckAutoScaling(asg, rpm, t) ==
    IF t - asg.LastScalingTime >= ScalingConfig.cooldown_period
    THEN IF rpm >= ScalingConfig.scale_out_threshold /\ asg.DesiredCapacity < asg.MaxSize
         THEN [asg EXCEPT !.DesiredCapacity = @ + 1,
                          !.LastScalingTime = t,
                          !.Instances = MockInstances(asg.DesiredCapacity + 1)]
         ELSE IF rpm <= ScalingConfig.scale_in_threshold
                 /\ asg.DesiredCapacity > asg.MinSize
         THEN [asg EXCEPT !.DesiredCapacity = @ - 1,
                          !.LastScalingTime = t,
                          !.Instances = MockInstances(asg.DesiredCapacity - 1)]
         ELSE asg
    ELSE asg

SetCapacity(asg, new_capacity, t) ==
    [asg EXCEPT !.DesiredCapacity = new_capacity,
                !.LastScalingTime = t,
                !.Instances = MockInstances(new_capacity)]

Refused(asg) == [outcome |-> "refused", save |-> FALSE, asg |-> asg]
Invalid(asg) == [outcome |-> "invalid", save |-> FALSE, asg |-> asg]
Success(asg) == [outcome |-> "success", save |-> TRUE, asg |-> asg]

\* trigger_autoscaling that records the time of scale_out before it tests the
\* capacity, and saves
TriggerAutoscalingStampsFirst(asg, r, t) ==
    IF r.action = "scale_out"
    THEN IF asg.DesiredCapacity >= asg.MaxSize
         THEN [outcome |-> "refused", save |-> TRUE,
               asg |-> [asg EXCEPT !.LastScalingTime = t]]
         ELSE Success(SetCapacity(asg, asg.DesiredCapacity + 1, t))
    ELSE IF r.action = "scale_in"
    THEN IF asg.DesiredCapacity <= asg.MinSize THEN Refused(asg)
         ELSE Success(SetCapacity(asg, asg.DesiredCapacity - 1, t))
    ELSE IF r.action = "set_capacity" /\ r.has_capacity
    THEN IF r.capacity < asg.MinSize \/ r.capacity > asg.MaxSize THEN Refused(asg)
         ELSE Success(SetCapacity(asg, r.capacity, t))
    ELSE Invalid(asg)

\* trigger_autoscaling on the state it read: its outcome ("success", "refused"
\* for success False, "invalid" for status 400), whether it reaches
\* save_asg_state, and the state it has built
TriggerAutoscaling(asg, r, t) ==
    IF r.action = "scale_out"
    THEN IF asg.DesiredCapacity >= asg.MaxSize THEN Refused(asg)
         ELSE Success(SetCapacity(asg, asg.DesiredCapacity + 1, t))
    ELSE IF r.action = "scale_in"
    THEN IF asg.DesiredCapacity <= asg.MinSize THEN Refused(asg)
         ELSE Success(SetCapacity(asg, asg.DesiredCapacity - 1, t))
    ELSE IF r.action = "set_capacity" /\ r.has_capacity
    THEN IF r.capacity < asg.MinSize \/ r.capacity > asg.MaxSize THEN Refused(asg)
         ELSE Success(SetCapacity(asg, r.capacity, t))
    ELSE Invalid(asg)

\* the elements of open_ports: the string "All Ports", or a port number
AllPorts == <<"All Ports", 0>>
PortNumber(n) == <<"port", n>>

RECURSIVE PortRange(_, _)
PortRange(from_port, to_port) ==
    IF from_port > to_port THEN <<>>
    ELSE <<PortNumber(from_port)>> \o PortRange(from_port + 1, to_port)

\* the loop that adds the sentinel to the ports found so far
RECURSIVE OpenPortsKeeping(_, _)
OpenPortsKeeping(rules, acc) ==
    IF rules = <<>> THEN acc
    ELSE LET r == Head(rules)
         IN IF r.IsEgress = FALSE
            THEN IF r.IpProtocol = "-1" THEN Append(acc, AllPorts)
                 ELSE IF r.FromPort = r.ToPort
                 THEN OpenPortsKeeping(Tail(rules), Append(acc, PortNumber(r.FromPort)))
                 ELSE OpenPortsKeeping(Tail(rules), acc \o PortRange(r.FromPort, r.ToPort))
            ELSE OpenPortsKeeping(Tail(rules), acc)

\* the loop of validate_security_group over the rules, from open_ports = acc
RECURSIVE OpenPortsFrom(_, _)
OpenPortsFrom(rules, acc) ==
    IF rules = <<>> THEN acc
    ELSE LET r == Head(rules)
         IN IF r.IsEgress = FALSE
            THEN IF r.IpProtocol = "-1" THEN <<AllPorts>>
                 ELSE IF r.FromPort = r.ToPort
                 THEN OpenPortsFrom(Tail(rules), Append(acc, PortNumber(r.FromPort)))
                 ELSE OpenPortsFrom(Tail(rules), acc \o PortRange(r.FromPort, r.ToPort))
            ELSE OpenPortsFrom(Tail(rules), acc)

\* validate_security_group: open_ports
OpenPorts(rules) == OpenPortsFrom(rules, <<>>)

-----------------------------------------------------------------------------
(* Initial values of the parts a specification leaves alone *)

IdleGroup ==
    /\ cfg = [min_size |-> 1, max_size |-> 1, desired_capacity |-> 1,
              warm_pool_size |-> 0, instance_reuse_policy |-> "oldest_first"]
    /\ instances = <<>>
    /\ warm_pool = [instances |-> <<>>, state |-> "stopped"]
    /\ obj = [o \in ObjIds |-> DeadObj]
    /\ scale_out_policies = <<>>
    /\ scale_in_policies = <<>>
    /\ now = Epoch
    /\ last = [op |-> "init", ret |-> NoRet, log |-> <<>>, fired |-> <<>>, n0 |-> 0]
    /\ steps = 0
    /\ stopped = FALSE

NoCall == [op |-> "none", v |-> <<0, 1>>, t |-> 0, result |-> FALSE, since |-> -1]

IdlePolicy ==
    /\ policy = NewPolicy(ScaleOutThreshold, 1, "greater", Cooldown)
    /\ fired_at = -1
    /\ call = NoCall

NoProbe == [op |-> "none", protocol |-> "TCP", port |-> 0, ip |-> <<4, 0>>,
            result |-> FALSE]

IdleRule ==
    /\ rule = DefaultEgress
    /\ probe = NoProbe

NoQuery == [op |-> "none",
            t |-> [source_ip |-> <<4, 0>>, destination_ip |-> <<4, 0>>,
                   protocol |-> "TCP", port |-> 0],
            receive |-> FALSE, send |-> FALSE]

GroupIds == {"sg-001", "sg-002"}

IdleSG ==
    /\ groups = [g \in GroupIds |-> NewSecurityGroup]
    /\ attached = <<>>
    /\ query = NoQuery

\* the background thread between two passes
Sleeping == [pc |-> "sleep", rpm |-> 0, asg |-> DefaultState]

NoRequest == [action |-> "none", has_capacity |-> FALSE, capacity |-> 0]

\* the request thread before the first request
NoRequestYet == [pc |-> "idle", r |-> NoRequest, asg |-> DefaultState, outcome |-> "none"]

IdleHttp ==
    /\ asg_state = DefaultState
    /\ loop = Sleeping
    /\ request = NoRequestYet
    /\ wall = Epoch

IdlePorts ==
    /\ sg_rules = <<>>
    /\ open_ports = <<>>

NoCheck == [op |-> "none", result |-> FALSE, failed |-> 0,
            before |-> NewInstance(<<"instance", 1>>)]

IdleHealth ==
    /\ health_check = HealthCheck(DefaultThreshold)
    /\ subject = NewInstance(<<"instance", 1>>)
    /\ checks = NoCheck

-----------------------------------------------------------------------------
(* Specification of one auto-scaling group *)

Init ==
    /\ InitGroup
    /\ IdlePolicy /\ IdleRule /\ IdleSG /\ IdleHttp /\ IdlePorts /\ IdleHealth

Next ==
    \/ Start
    \/ Add
    \/ Remove
    \/ CheckHealth
    \/ AddScaleOutPolicy
    \/ AddScaleInPolicy
    \/ EvaluateMetrics
    \/ SimulateTraffic
    \/ FailInstance
    \/ MaintainSize
    \/ Stop

Spec == Init /\ [][Next]_vars

-----------------------------------------------------------------------------
(* Specification of one operation on a group that is running *)

\* the group as AutoScalingGroup.__init__ leaves it
Fresh == [instances |-> <<>>, pool |-> [instances |-> <<>>, state |-> "stopped"],
          obj |-> [o \in ObjIds |-> DeadObj], out |-> <<>>, in |-> <<>>,
          used |-> {}, ret |-> None, log |-> <<>>, fired |-> <<>>]

\* the cpu_utilization values simulate_load has set
Loads == {0, LowLoad, HighLoad}

\* a policy that has not fired yet, or fired at the last reading of the clock
Fired(ps) == ps \cup {[p EXCEPT !.last_scaled_time = Epoch] : p \in ps}

PolicyLists(ps) == {<<>>} \cup {<<p>> : p \in Fired(ps)}

\* the heap after simulate_load(cpu[i]) on the i-th instance of xs
RECURSIVE SetLoads(_, _, _)
SetLoads(ob, xs, cpu) ==
    IF xs = <<>> THEN ob
    ELSE SetLoads([ob EXCEPT ![Head(xs)].cpu = cpu[1]], Tail(xs), Tail(cpu))

\* a group after start(), with policies added and load put on its instances
InitRunning ==
    /\ cfg \in Configs
    /\ \E s \in StartGroup(Fresh) :
           \E cpu \in [1..Len(s.instances) -> Loads] :
               /\ instances = s.instances
               /\ warm_pool = s.pool
               /\ obj = SetLoads(s.obj, s.instances, cpu)
    /\ scale_out_policies \in PolicyLists(ScaleOutPolicies)
    /\ scale_in_policies \in PolicyLists(ScaleInPolicies)
    /\ now = Epoch
    /\ last = [op |-> "running", ret |-> NoRet, log |-> <<>>, fired |-> <<>>, n0 |-> 0]
    /\ steps = MaxSteps - 1
    /\ stopped = FALSE
    /\ IdlePolicy /\ IdleRule /\ IdleSG /\ IdleHttp /\ IdlePorts /\ IdleHealth

SpecRunning == InitRunning /\ [][Next]_vars

-----------------------------------------------------------------------------
(* Specification of one scaling policy called directly *)

PolicyConfigs ==
    {NewPolicy(th, 1, cmp, cd) :
        th \in {ScaleInThreshold, ScaleOutThreshold},
        cmp \in {"greater", "less"},
        cd \in {0, Cooldown, Cooldown + 1}}

MetricValues ==
    {<<v, 1>> : v \in {0, LowLoad, ScaleInThreshold, ScaleOutThreshold, HighLoad}}

InitPolicy ==
    /\ policy \in PolicyConfigs
    /\ fired_at = -1
    /\ call = NoCall
    /\ IdleGroup /\ IdleRule /\ IdleSG /\ IdleHttp /\ IdlePorts /\ IdleHealth

ShouldScaleCall ==
    \E v \in MetricValues, t \in 0..MaxTime :
        LET r == ShouldScale(policy, v, t)
        IN /\ policy' = r[1]
           /\ call' = [op |-> "should_scale", v |-> v, t |-> t, result |-> r[2],
                       since |-> fired_at]
           /\ fired_at' = IF r[2] THEN t ELSE fired_at
           /\ UNCHANGED <<asgVars, ruleVars, sgVars, httpVars, portVars, healthVars>>

NextPolicy == ShouldScaleCall

SpecPolicy == InitPolicy /\ [][NextPolicy]_vars

-----------------------------------------------------------------------------
(* Specification of one rule matched against traffic *)

Ports == 1..MaxPort
PortBounds == {-1} \cup Ports

\* the ip_ranges lists a rule is constructed with
RangeLists ==
    {<<Any4>>, <<Any6>>, <<Host4>>, <<Host4, Any6>>, <<Any6, Host4>>, <<Net4, Host4>>}

\* SecurityGroupRule.__init__; is_egress as add_ingress_rule passes it
Rules ==
    [protocol : Protocols, from_port : PortBounds, to_port : PortBounds,
     ip_ranges : RangeLists, is_egress : {FALSE}]

InitRule ==
    /\ rule \in Rules
    /\ probe = NoProbe
    /\ IdleGroup /\ IdlePolicy /\ IdleSG /\ IdleHttp /\ IdlePorts /\ IdleHealth

MatchesTrafficCall ==
    \E protocol \in Protocols, port \in Ports, ip \in Addrs :
        /\ probe' = [op |-> "matches_traffic", protocol |-> protocol, port |-> port,
                     ip |-> ip, result |-> MatchesTraffic(rule, protocol, port, ip)]
        /\ UNCHANGED <<rule, asgVars, policyVars, sgVars, httpVars, portVars, healthVars>>

NextRule == MatchesTrafficCall

SpecRule == InitRule /\ [][NextRule]_vars

-----------------------------------------------------------------------------
(* Specification of security groups attached to one resource *)

\* the arguments add_ingress_rule and add_egress_rule are called with
IngressArgs == {<<"TCP", 1, 1, Any4>>, <<"ALL", -1, -1, Any6>>}
EgressArgs == {<<"UDP", 2, 2, Any6>>}

Traffic ==
    [source_ip : {<<4, 1>>, <<6, 0>>}, destination_ip : {<<4, 1>>, <<6, 0>>},
     protocol : {"TCP", "UDP"}, port : Ports]

\* the resource is attached to at most as many times as there are groups
MaxAttached == Cardinality(GroupIds)

InitSG ==
    /\ groups = [g \in GroupIds |-> NewSecurityGroup]
    /\ attached = <<>>
    /\ query = NoQuery
    /\ IdleGroup /\ IdlePolicy /\ IdleRule /\ IdleHttp /\ IdlePorts /\ IdleHealth

AddIngress ==
    \E g \in GroupIds, a \in IngressArgs :
        /\ Len(groups[g].inbound_rules) < MaxRules
        /\ groups' = [groups EXCEPT ![g] = AddIngressRule(@, a[1], a[2], a[3], a[4])]
        /\ query' = NoQuery
        /\ UNCHANGED <<attached, asgVars, policyVars, ruleVars, httpVars, portVars, healthVars>>

AddEgress ==
    \E g \in GroupIds, a \in EgressArgs :
        /\ Len(groups[g].outbound_rules) < 1 + MaxRules
        /\ groups' = [groups EXCEPT ![g] = AddEgressRule(@, a[1], a[2], a[3], a[4])]
        /\ query' = NoQuery
        /\ UNCHANGED <<attached, asgVars, policyVars, ruleVars, httpVars, portVars, healthVars>>

AttachSecurityGroup ==
    \E g \in GroupIds :
        /\ Len(attached) < MaxAttached
        /\ attached' = Append(attached, g)
        /\ query' = NoQuery
        /\ UNCHANGED <<groups, asgVars, policyVars, ruleVars, httpVars, portVars, healthVars>>

DetachSecurityGroup ==
    \E g \in GroupIds :
        /\ attached' = Detach(attached, g)
        /\ query' = NoQuery
        /\ UNCHANGED <<groups, asgVars, policyVars, ruleVars, httpVars, portVars, healthVars>>

CheckTraffic ==
    \E t \in Traffic :
        /\ query' = [op |-> "check", t |-> t,
                     receive |-> CanReceiveTraffic(attached, t),
                     send |-> CanSendTraffic(attached, t)]
        /\ UNCHANGED <<groups, attached, asgVars, policyVars, ruleVars, httpVars, portVars, healthVars>>

NextSG ==
    \/ AddIngress
    \/ AddEgress
    \/ AttachSecurityGroup
    \/ DetachSecurityGroup
    \/ CheckTraffic

SpecSG == InitSG /\ [][NextSG]_vars

-----------------------------------------------------------------------------
(* Specification of the HTTP variant: the background loop and one request *)

\* the values get_requests_per_minute returns
RequestRates ==
    {ScalingConfig.scale_in_threshold, ScalingConfig.scale_in_threshold + 1,
     ScalingConfig.scale_out_threshold}

\* the bodies of POST /autoscaling/trigger
ScalingRequests ==
    {[action |-> a, has_capacity |-> FALSE, capacity |-> 0]
        : a \in {"scale_out", "scale_in", "set_capacity", "restart"}}
    \cup {[action |-> "set_capacity", has_capacity |-> TRUE, capacity |-> c]
              : c \in {DefaultState.MinSize - 1, DefaultState.MinSize,
                       DefaultState.MaxSize, DefaultState.MaxSize + 1}}

InitHttp ==
    /\ asg_state = DefaultState
    /\ loop = Sleeping
    /\ request = NoRequestYet
    /\ wall = Epoch
    /\ IdleGroup /\ IdlePolicy /\ IdleRule /\ IdleSG /\ IdlePorts /\ IdleHealth

\* check_auto_scaling: get_requests_per_minute() and get_asg_state()
LoopRead ==
    /\ loop.pc = "sleep"
    /\ \E rpm \in RequestRates : loop' = [pc |-> "read", rpm |-> rpm, asg |-> asg_state]
    /\ UNCHANGED <<asg_state, request, wall>>
    /\ UNCHANGED <<asgVars, policyVars, ruleVars, sgVars, portVars, healthVars>>

\* check_auto_scaling: the decision and save_asg_state(), then time.sleep
LoopSave ==
    /\ loop.pc = "read"
    /\ asg_state' = CheckAutoScaling(loop.asg, loop.rpm, wall)
    /\ loop' = Sleeping
    /\ UNCHANGED <<request, wall>>
    /\ UNCHANGED <<asgVars, policyVars, ruleVars, sgVars, portVars, healthVars>>

\* trigger_autoscaling: get_asg_state()
RequestRead ==
    /\ request.pc = "idle"
    /\ \E r \in ScalingRequests :
           request' = [pc |-> "read", r |-> r, asg |-> asg_state, outcome |-> "pending"]
    /\ UNCHANGED <<asg_state, loop, wall>>
    /\ UNCHANGED <<asgVars, policyVars, ruleVars, sgVars, portVars, healthVars>>

\* trigger_autoscaling: from the tests of the request to the response
RequestFinish ==
    /\ request.pc = "read"
    /\ LET res == TriggerAutoscaling(request.asg, request.r, wall)
       IN /\ asg_state' = IF res.save THEN res.asg ELSE asg_state
          /\ request' = [pc |-> "idle", r |-> request.r, asg |-> DefaultState,
                         outcome |-> res.outcome]
    /\ UNCHANGED <<loop, wall>>
    /\ UNCHANGED <<asgVars, policyVars, ruleVars, sgVars, portVars, healthVars>>

\* time passes
Tick ==
    /\ wall < Epoch + MaxWall
    /\ wall' = wall + 1
    /\ UNCHANGED <<asg_state, loop, request>>
    /\ UNCHANGED <<asgVars, policyVars, ruleVars, sgVars, portVars, healthVars>>

NextHttp ==
    \/ LoopRead
    \/ LoopSave
    \/ RequestRead
    \/ RequestFinish
    \/ Tick

SpecHttp == InitHttp /\ [][NextHttp]_vars

-----------------------------------------------------------------------------
(* Specification of the open-ports query of the HTTP variant *)

\* the entries of SecurityGroupRules
ListedRules ==
    {[IsEgress |-> FALSE, IpProtocol |-> "tcp", FromPort |-> 80, ToPort |-> 80],
     [IsEgress |-> FALSE, IpProtocol |-> "tcp", FromPort |-> 22, ToPort |-> 23],
     [IsEgress |-> FALSE, IpProtocol |-> "-1", FromPort |-> -1, ToPort |-> -1],
     [IsEgress |-> TRUE, IpProtocol |-> "-1", FromPort |-> -1, ToPort |-> -1],
     [IsEgress |-> TRUE, IpProtocol |-> "tcp", FromPort |-> 443, ToPort |-> 443]}

InitPorts ==
    /\ sg_rules \in UNION {[1..n -> ListedRules] : n \in 0..MaxListed}
    /\ open_ports = <<>>
    /\ IdleGroup /\ IdlePolicy /\ IdleRule /\ IdleSG /\ IdleHttp /\ IdleHealth

\* validate_security_group
ValidateSecurityGroup ==
    /\ open_ports' = OpenPorts(sg_rules)
    /\ UNCHANGED sg_rules
    /\ UNCHANGED <<asgVars, policyVars, ruleVars, sgVars, httpVars, healthVars>>

NextPorts == ValidateSecurityGroup

SpecPorts == InitPorts /\ [][NextPorts]_vars

-----------------------------------------------------------------------------
(* Specification of a group that start() is called on once, as in the drivers *)

\* policies added before start(), none of them fired yet
UnfiredLists(ps) == {<<>>} \cup {<<p>> : p \in ps}

\* the group when its only start() returns
InitStarted ==
    /\ cfg \in Configs
    /\ \E s \in StartGroup(Fresh) :
           /\ instances = s.instances
           /\ warm_pool = s.pool
           /\ obj = s.obj
           /\ last = [op |-> "start", ret |-> RetOf(s), log |-> <<>>, fired |-> <<>>,
                      n0 |-> 0]
    /\ scale_out_policies \in UnfiredLists(ScaleOutPolicies)
    /\ scale_in_policies \in UnfiredLists(ScaleInPolicies)
    /\ now = Epoch
    /\ steps = 1
    /\ stopped = FALSE
    /\ IdlePolicy /\ IdleRule /\ IdleSG /\ IdleHttp /\ IdlePorts /\ IdleHealth

NextStarted ==
    \/ Add
    \/ Remove
    \/ CheckHealth
    \/ EvaluateMetrics
    \/ SimulateTraffic
    \/ FailInstance
    \/ MaintainSize

SpecStarted == InitStarted /\ [][NextStarted]_vars

-----------------------------------------------------------------------------
(* Specification of one evaluate_metrics() cycle of a group with several policies *)

MaxListLen == 2        \* policies in each policy list of that group

\* the lists of up to n policies drawn from ps
RECURSIVE ListsUpTo(_, _)
ListsUpTo(ps, n) ==
    IF n = 0 THEN {<<>>}
    ELSE LET shorter == ListsUpTo(ps, n - 1)
         IN shorter \cup {Append(l, p) : l \in shorter, p \in ps}

\* a group after its policies were added, start() and simulate_traffic(load)
InitCycle ==
    /\ cfg \in Configs
    /\ \E s \in StartGroup(Fresh), load \in {LowLoad, HighLoad} :
           /\ instances = s.instances
           /\ warm_pool = s.pool
           /\ obj = SetLoad(s.obj, s.instances, load)
    /\ scale_out_policies \in ListsUpTo(ScaleOutPolicies, MaxListLen)
    /\ scale_in_policies \in ListsUpTo(ScaleInPolicies, MaxListLen)
    /\ now = Epoch
    /\ last = [op |-> "simulate_traffic", ret |-> NoRet, log |-> <<>>, fired |-> <<>>,
               n0 |-> 0]
    /\ steps = MaxSteps - 1
    /\ stopped = FALSE
    /\ IdlePolicy /\ IdleRule /\ IdleSG /\ IdleHttp /\ IdlePorts /\ IdleHealth

NextCycle == EvaluateMetrics

SpecCycle == InitCycle /\ [][NextCycle]_vars

-----------------------------------------------------------------------------
(* Specification of a group with a failed instance whose health is checked for ever *)

HccCap == 2            \* health_check_count is kept up to this value
LiveTime == 1          \* advance of the clock over all evaluate_metrics() calls

\* check_instance only compares health_check_count with the threshold (2): a
\* count above the cap behaves as the cap does
Capped(s) ==
    [s EXCEPT !.obj = [o \in ObjIds |-> [s.obj[o] EXCEPT !.hcc = Min(@, HccCap)]]]

\* the configurations whose start() leaves more than min_size active instances
LiveConfigs == {c \in Configs : Min(c.desired_capacity, c.max_size) > c.min_size}

\* a group after both policies were added, start() and simulate_traffic(load),
\* one of whose instances the driver has then made fail
InitLive ==
    /\ cfg \in LiveConfigs
    /\ \E s \in StartGroup(Fresh), load \in {LowLoad, HighLoad} :
           \E f \in 1..Len(s.instances) :
               /\ instances = s.instances
               /\ warm_pool = s.pool
               /\ obj = [SetLoad(s.obj, s.instances, load)
                             EXCEPT ![s.instances[f]].status = "stopped"]
    /\ scale_out_policies \in {<<p>> : p \in ScaleOutPolicies}
    /\ scale_in_policies \in {<<p>> : p \in ScaleInPolicies}
    /\ now = Epoch
    /\ last = [op |-> "fail", ret |-> NoRet, log |-> <<>>, fired |-> <<>>, n0 |-> 0]
    /\ steps = 0
    /\ stopped = FALSE
    /\ IdlePolicy /\ IdleRule /\ IdleSG /\ IdleHttp /\ IdlePorts /\ IdleHealth

\* steps = 1 while a check_health() pass is under way, 0 otherwise
\* the driver calls check_health()
CallCheckHealth ==
    /\ steps = 0
    /\ steps' = 1
    /\ UNCHANGED <<cfg, instances, warm_pool, obj, scale_out_policies,
                   scale_in_policies, now, last, stopped>>
    /\ UNCHANGED <<policyVars, ruleVars, sgVars, httpVars, portVars, healthVars>>

\* the pass itself, up to its return
LiveCheckHealth ==
    /\ steps = 1
    /\ steps' = 0
    /\ \E s \in CheckHealthFrom(Cur, 1) : Settle(Capped(s), "check_health")
    /\ UNCHANGED now

LiveSimulateTraffic ==
    /\ steps = 0
    /\ \E load \in {LowLoad, HighLoad} :
           Settle([Cur EXCEPT !.obj = SetLoad(@, instances, load)], "simulate_traffic")
    /\ UNCHANGED <<now, steps>>

LiveEvaluateMetrics ==
    /\ steps = 0
    /\ \E d \in Delays :
           /\ now + d <= Epoch + LiveTime
           /\ now' = now + d
           /\ \E s \in EvaluateMetricsAt(Cur, now + d) : Settle(s, "evaluate_metrics")
    /\ UNCHANGED steps

NextLive ==
    \/ CallCheckHealth
    \/ LiveCheckHealth
    \/ LiveSimulateTraffic
    \/ LiveEvaluateMetrics

\* the drivers call check_health() in every cycle of their loop; which calls of
\* simulate_traffic and evaluate_metrics come between two passes is left open
SpecLive == InitLive /\ [][NextLive]_vars /\ WF_vars(CallCheckHealth)

-----------------------------------------------------------------------------
(* Specification of a warm pool asked for instances directly *)

\* the values of count
Counts == -1..(MaxWarmPoolSize + 1)

\* a warm pool after initialize(), or that of a group after start()
InitPool ==
    /\ cfg \in {c \in Configs : c.warm_pool_size > 0}
    /\ \E s \in {WarmPoolInitialize(Fresh, 0)} \cup StartGroup(Fresh) :
           /\ instances = s.instances
           /\ warm_pool = s.pool
           /\ obj = s.obj
    /\ scale_out_policies = <<>>
    /\ scale_in_policies = <<>>
    /\ now = Epoch
    /\ last = [op |-> "initialize", ret |-> NoRet, log |-> <<>>, fired |-> <<>>, n0 |-> 0]
    /\ steps = 0
    /\ stopped = FALSE
    /\ IdlePolicy /\ IdleRule /\ IdleSG /\ IdleHttp /\ IdlePorts /\ IdleHealth

\* last.log: the argument, the list returned and the fields of its instances as
\* the call leaves them
GetInstancesCall ==
    /\ \E count \in Counts :
           \E r \in GetInstances(Cur, count) :
               Commit([r[1] EXCEPT !.log = <<[count |-> count, returned |-> r[2],
                                              fields |-> Fields(r[1].obj, r[2])]>>],
                      "get_instances")
    /\ UNCHANGED now

NextPool == GetInstancesCall

SpecPool == InitPool /\ [][NextPool]_vars

-----------------------------------------------------------------------------
(* Specification of one health check applied to one instance *)

MaxThreshold == 3      \* largest HealthCheck.threshold drawn
MaxChecks == 5         \* calls of check_instance and status changes of the instance

InitHealth ==
    /\ health_check \in {HealthCheck(n) : n \in 1..MaxThreshold}
    /\ subject \in {[NewInstance(<<"instance", 1>>) EXCEPT !.cpu = c] : c \in Loads}
    /\ checks = NoCheck
    /\ IdleGroup /\ IdlePolicy /\ IdleRule /\ IdleSG /\ IdleHttp /\ IdlePorts

\* checks.failed: the calls in a row, up to this one, that found the instance
\* not running
CheckInstanceCall ==
    /\ checks.failed < MaxChecks
    /\ LET r == CheckInstanceOf(health_check, [obj |-> <<subject>>], 1)
       IN /\ subject' = r[1].obj[1]
          /\ checks' = [op |-> "check_instance", result |-> r[2], before |-> subject,
                        failed |-> IF subject.status # "running"
                                   THEN checks.failed + 1 ELSE 0]
    /\ UNCHANGED <<health_check, asgVars, policyVars, ruleVars, sgVars, httpVars,
                   portVars>>

\* EC2Instance.start
StartInstance ==
    /\ subject.status # "running"
    /\ subject' = [subject EXCEPT !.status = "running"]
    /\ checks' = [checks EXCEPT !.op = "start"]
    /\ UNCHANGED <<health_check, asgVars, policyVars, ruleVars, sgVars, httpVars,
                   portVars>>

\* EC2Instance.stop
StopInstance ==
    /\ subject.status # "stopped"
    /\ subject' = [subject EXCEPT !.status = "stopped"]
    /\ checks' = [checks EXCEPT !.op = "stop"]
    /\ UNCHANGED <<health_check, asgVars, policyVars, ruleVars, sgVars, httpVars,
                   portVars>>

NextHealth ==
    \/ CheckInstanceCall
    \/ StartInstance
    \/ StopInstance

SpecHealth == InitHealth /\ [][NextHealth]_vars

-----------------------------------------------------------------------------
(* Properties of the auto-scaling group *)

\* C1 as stated: in every reachable state min_size <= len(instances) <= max_size.
\* Refuted by the newly constructed group, which is empty.
C1_CapacityBounds ==
    cfg.min_size <= Len(instances) /\ Len(instances) <= cfg.max_size

\* C1 amended: len(instances) <= max_size in every reachable state, and no
\* operation other than stop() takes len(instances) from at least min_size to
\* below min_size.
C1_CapacityBoundsKept ==
    /\ [](Len(instances) <= cfg.max_size)
    /\ [][(Len(instances) >= cfg.min_size /\ last'.op # "stop")
            => Len(instances') >= cfg.min_size]_vars

\* a remove-instance took the group down to exactly min_size
C1_Witness ==
    /\ last.op = "remove"
    /\ last.ret.o # None
    /\ Len(instances) = cfg.min_size

\* C2: remove-instance at len(instances) = min_size and add-instance at
\* len(instances) = max_size return no instance and leave the active list, the
\* reserve and every instance unchanged.
C2_BoundViolationIsNoOp ==
    [][/\ (last'.op = "remove" /\ Len(instances) = cfg.min_size)
            => (last'.ret = NoRet /\ UNCHANGED <<instances, warm_pool, obj>>)
       /\ (last'.op = "add" /\ Len(instances) = cfg.max_size)
            => (last'.ret = NoRet /\ UNCHANGED <<instances, warm_pool, obj>>)]_vars

\* a remove-instance was refused on a non-empty group at min_size
C2_Witness ==
    /\ last.op = "remove"
    /\ last.ret = NoRet
    /\ instances # <<>>
    /\ Len(instances) = cfg.min_size
    /\ last.n0 = cfg.min_size

\* C3: with a non-empty reserve and len(instances) < max_size, add-instance
\* appends an instance of the reserve (the first under oldest_first, the last
\* under newest_first), started, and the reserve loses exactly that instance.
C3_WarmPoolPreference ==
    [][(/\ last'.op = "add"
        /\ warm_pool.instances # <<>>
        /\ Len(instances) < cfg.max_size)
       => LET x == last'.ret.o
              rest == ListRemove(warm_pool.instances, x)
          IN /\ x \in Range(warm_pool.instances)
             /\ cfg.instance_reuse_policy = "oldest_first"
                    => x = Head(warm_pool.instances)
             /\ cfg.instance_reuse_policy = "newest_first"
                    => x = warm_pool.instances[Len(warm_pool.instances)]
             /\ Fields(obj', instances') =
                    Append(Fields(obj, instances), [obj[x] EXCEPT !.status = "running"])
             /\ Fields(obj', warm_pool'.instances) \in Shuffles(Fields(obj, rest))
             /\ cfg.instance_reuse_policy # "random"
                    => Fields(obj', warm_pool'.instances) = Fields(obj, rest)]_vars

\* add-instance took a pool-created instance from a reserve of two or more
C3_Witness ==
    /\ last.op = "add"
    /\ last.ret.rid[1] = "warm-instance"
    /\ last.ret.status = "running"
    /\ warm_pool.instances # <<>>

\* C4 as stated: a check_health() pass in which an instance fails the check
\* leaves len(instances) as it was before the pass.
C4_HealthPassKeepsCount ==
    (last.op = "check_health" /\ \E i \in 1..Len(last.log) : ~last.log[i].ok)
        => Len(instances) = last.n0

\* C5 as stated: when check_health() finds that instance x fails the check,
\* the instance removed in that step is x.
C5_FailedInstanceIsRemoved ==
    last.op = "check_health"
        => \A i \in 1..Len(last.log) :
               ~last.log[i].ok => last.log[i].removed = last.log[i].x

-----------------------------------------------------------------------------
(* Properties of a scaling policy *)

ThresholdHolds(p, v) ==
    \/ p.comparison = "greater" /\ v[1] > p.threshold * v[2]
    \/ p.comparison = "less" /\ v[1] < p.threshold * v[2]

\* C6: once should_scale has returned true at time t, a call at a time closer
\* than cooldown to t returns false whatever the metric value is, and a call
\* at a time at least cooldown after t returns true exactly when the threshold
\* condition holds.
C6_Cooldown ==
    (call.op = "should_scale" /\ call.since # -1) =>
        /\ call.t - call.since < policy.cooldown => ~call.result
        /\ call.t - call.since >= policy.cooldown =>
               call.result = ThresholdHolds(policy, call.v)

\* a policy with a cooldown fires again exactly cooldown after it fired
C6_Witness ==
    /\ call.op = "should_scale" /\ call.since > 0
    /\ policy.cooldown > 0
    /\ call.t - call.since = policy.cooldown
    /\ call.result

-----------------------------------------------------------------------------
(* Properties of rules, security groups and resources *)

Reverse(t) ==
    [source_ip |-> t.destination_ip, destination_ip |-> t.source_ip,
     protocol |-> t.protocol, port |-> t.port]

SomeEgressMatches(sg, t) ==
    \E i \in 1..Len(sg.outbound_rules) :
        MatchesTraffic(sg.outbound_rules[i], t.protocol, t.port, t.destination_ip)

\* C7: for every security group and every traffic t, allow_outbound(t) is
\* allow_inbound(reverse(t)) or some egress rule matching (protocol, port,
\* destination_ip); with the egress rules taken away, allow_outbound(t) is
\* allow_inbound(reverse(t)).
C7_OutboundIsStatefulOrEgress ==
    \A g \in GroupIds, t \in Traffic :
        /\ AllowOutbound(groups[g], t)
               = (AllowInbound(groups[g], Reverse(t)) \/ SomeEgressMatches(groups[g], t))
        /\ AllowOutbound([groups[g] EXCEPT !.outbound_rules = <<>>], t)
               = AllowInbound(groups[g], Reverse(t))

\* traffic sent by a resource whose only group has no egress rule for it, but
\* lets the reverse flow in
C7_Witness ==
    /\ query.op = "check" /\ query.send
    /\ Len(attached) = 1
    /\ ~SomeEgressMatches(groups[attached[1]], query.t)
    /\ AllowInbound(groups[attached[1]], Reverse(query.t))

MatchCondition(r, protocol, port, ip) ==
    /\ r.protocol = protocol \/ r.protocol = "ALL"
    /\ r.from_port = -1 \/ (r.from_port <= port /\ port <= r.to_port)
    /\ \E i \in 1..Len(r.ip_ranges) : Contains(r.ip_ranges[i], ip)

IsCatchAll(r) ==
    /\ r.protocol = "ALL" /\ r.from_port = -1 /\ r.to_port = -1
    /\ r.ip_ranges = <<Any4>>

\* C8 as stated: matches_traffic is the conjunction of the protocol, port and
\* CIDR conditions, and the rule (ALL, -1, -1, 0.0.0.0/0) matches every
\* (protocol, port, ip).
C8_CatchAllMatchesEverything ==
    probe.op = "matches_traffic" =>
        /\ probe.result = MatchCondition(rule, probe.protocol, probe.port, probe.ip)
        /\ IsCatchAll(rule) => probe.result

\* C8: matches_traffic is the conjunction of the protocol, port and CIDR
\* conditions, and the rule (ALL, -1, -1, 0.0.0.0/0) matches every
\* (protocol, port, ip) whose ip is an IPv4 address.
C8_MatchesTraffic ==
    probe.op = "matches_traffic" =>
        /\ probe.result = MatchCondition(rule, probe.protocol, probe.port, probe.ip)
        /\ (IsCatchAll(rule) /\ probe.ip[1] = 4) => probe.result

\* a rule of a specific protocol and port range with several CIDR blocks,
\* matched through a block that is not the first
C8_Witness ==
    /\ probe.op = "matches_traffic" /\ probe.result
    /\ rule.protocol = probe.protocol
    /\ rule.from_port # -1
    /\ ~Contains(rule.ip_ranges[1], probe.ip)

MeansAnyPort(r) == r.from_port = -1 \/ r.to_port = -1 \/ r.protocol = "ALL"

\* C9: a rule whose from_port is -1, or whose to_port is -1, or whose protocol
\* is ALL accepts every port, given a matching protocol and an ip inside one
\* of its CIDR blocks.
C9_AnyPortSentinel ==
    (/\ probe.op = "matches_traffic"
     /\ MeansAnyPort(rule)
     /\ rule.protocol = probe.protocol \/ rule.protocol = "ALL"
     /\ \E i \in 1..Len(rule.ip_ranges) : Contains(rule.ip_ranges[i], probe.ip))
        => probe.result

\* C10: can_receive_traffic(t) is true exactly when some attached group allows
\* t inbound, can_send_traffic(t) exactly when some attached group allows t
\* outbound, and both are false when no group is attached.
C10_PermissiveUnion ==
    \A t \in Traffic :
        /\ CanReceiveTraffic(attached, t)
               = (\E i \in 1..Len(attached) : AllowInbound(groups[attached[i]], t))
        /\ CanSendTraffic(attached, t)
               = (\E i \in 1..Len(attached) : AllowOutbound(groups[attached[i]], t))
        /\ attached = <<>> => (~CanReceiveTraffic(attached, t) /\ ~CanSendTraffic(attached, t))

\* traffic received through the second attached group only
C10_Witness ==
    /\ query.op = "check" /\ query.receive
    /\ Len(attached) = 2
    /\ ~AllowInbound(groups[attached[1]], query.t)
    /\ AllowInbound(groups[attached[2]], query.t)

IsPrefix(a, b) == Len(a) <= Len(b) /\ SubSeq(b, 1, Len(a)) = a

\* C11: the egress list of every security group starts with the default rule
\* (ALL, -1..-1, 0.0.0.0/0) that construction added; no operation removes or
\* alters a rule of the egress list, and an operation that adds an ingress
\* rule leaves the egress list as it is.
C11_DefaultEgressKept ==
    /\ [](\A g \in GroupIds :
             /\ groups[g].outbound_rules # <<>>
             /\ groups[g].outbound_rules[1] = NewRule("ALL", -1, -1, Any4, TRUE))
    /\ [][\A g \in GroupIds :
             /\ IsPrefix(groups[g].outbound_rules, groups'[g].outbound_rules)
             /\ groups'[g].inbound_rules # groups[g].inbound_rules
                    => groups'[g].outbound_rules = groups[g].outbound_rules]_vars

\* a group that was given an ingress rule and a further egress rule
C11_Witness ==
    \E g \in GroupIds :
        /\ groups[g].inbound_rules # <<>>
        /\ Len(groups[g].outbound_rules) = 2
        /\ groups[g].outbound_rules[2] # groups[g].outbound_rules[1]

-----------------------------------------------------------------------------
(* Properties of a running group *)

\* C12: evaluate_metrics() on a group of n active instances whose mean
\* cpu_utilization exceeds the threshold of its single scale-out policy
\* (comparison greater, adjustment a, out of cooldown) ends with
\* min(n + a, max_size) active instances and with the policy's
\* last_scaled_time set to the time of the evaluation.
C12_ScaleOutCycle ==
    [][(/\ last'.op = "evaluate_metrics"
        /\ Len(scale_out_policies) = 1
        /\ scale_out_policies[1].comparison = "greater"
        /\ now' - scale_out_policies[1].last_scaled_time >= scale_out_policies[1].cooldown
        /\ instances # <<>>
        /\ SumCpu(obj, instances) > scale_out_policies[1].threshold * Len(instances))
       => /\ Len(instances') = Min(Len(instances) + scale_out_policies[1].adjustment,
                                    cfg.max_size)
          /\ scale_out_policies'[1].last_scaled_time = now']_vars

\* a cycle in which the scale-out policy of adjustment 2 fired and the group
\* grew by one instance only, up to max_size
C12_Witness ==
    /\ last.op = "evaluate_metrics"
    /\ Len(scale_out_policies) = 1
    /\ last.fired # <<>> /\ last.fired[1].list = "out" /\ last.fired[1].fired
    /\ scale_out_policies[1].adjustment = 2
    /\ Len(instances) = last.n0 + 1
    /\ Len(instances) = cfg.max_size
    /\ scale_out_policies[1].last_scaled_time = now

-----------------------------------------------------------------------------
(* Properties of the life cycle of a group *)

NotStarted ==
    /\ last.op \in {"init", "add_scale_out_policy", "add_scale_in_policy"}
    /\ instances = <<>>
    /\ warm_pool.instances = <<>>

\* C13: start() on a newly constructed group, with or without a warm pool,
\* leaves min(desired_capacity, max_size) active instances, every one of
\* them running.
C13_StartReachesDesired ==
    [][(last'.op = "start" /\ NotStarted)
       => /\ Len(instances') = Min(cfg.desired_capacity, cfg.max_size)
          /\ \A i \in 1..Len(instances') : obj'[instances'[i]].status = "running"]_vars

\* a group with a warm pool smaller than its desired capacity, started: its
\* instances come from the reserve and from the template
C13_Witness ==
    /\ last.op = "start" /\ steps = 1
    /\ HasWarmPool
    /\ Len(instances) = Min(cfg.desired_capacity, cfg.max_size)
    /\ \E i, j \in 1..Len(instances) :
           /\ obj[instances[i]].rid[1] = "warm-instance"
           /\ obj[instances[j]].rid[1] = "instance"

-----------------------------------------------------------------------------
(* Properties of the HTTP variant *)

\* C14: a manual scaling request that is rejected (unknown action,
\* set_capacity without a capacity, set_capacity outside MinSize..MaxSize,
\* scale_out at MaxSize, scale_in at MinSize) leaves the persisted state as it
\* was: no step of such a request, from its reading of the state to its
\* response, changes DesiredCapacity, Instances or LastScalingTime.
C14_RejectedRequestKeepsState ==
    [][(request' # request /\ request'.outcome \in {"pending", "refused", "invalid"})
       => asg_state' = asg_state]_vars

\* scale_out answered with success False by a group at MaxSize
C14_Witness ==
    /\ request.pc = "idle" /\ request.outcome = "refused"
    /\ request.r.action = "scale_out"
    /\ asg_state.DesiredCapacity = asg_state.MaxSize

LoopSaves == loop.pc = "read" /\ loop'.pc = "sleep"
RequestSaves == request.pc = "read" /\ request'.outcome = "success"

\* C15: the loop and the manual-scaling handler change the state under mutual
\* exclusion: whenever one of them saves, the DesiredCapacity it read is still
\* the persisted one, so that it overwrites no change the other has saved
\* since.
C15_NoLostUpdate ==
    [][/\ LoopSaves => loop.asg.DesiredCapacity = asg_state.DesiredCapacity
       /\ RequestSaves => request.asg.DesiredCapacity = asg_state.DesiredCapacity]_vars

IsIngress(r) == r.IsEgress = FALSE

\* C16: the open ports of a group whose only ingress rule is TCP 80..80 are
\* exactly [80]; those of a group with an ingress rule of protocol -1 are
\* exactly ["All Ports"], whatever ingress rules precede or follow it; egress
\* rules contribute nothing.
C16_OpenPorts ==
    [][/\ (SelectSeq(sg_rules, IsIngress)
              = <<[IsEgress |-> FALSE, IpProtocol |-> "tcp", FromPort |-> 80, ToPort |-> 80]>>)
          => open_ports' = <<PortNumber(80)>>
       /\ (\E i \in 1..Len(sg_rules) : IsIngress(sg_rules[i]) /\ sg_rules[i].IpProtocol = "-1")
          => open_ports' = <<AllPorts>>
       /\ open_ports' = OpenPorts(SelectSeq(sg_rules, IsIngress))]_vars

\* the query of a group whose rule of protocol -1 comes after another ingress
\* rule and before an egress rule
C16_Witness ==
    /\ open_ports = <<AllPorts>>
    /\ Len(sg_rules) = 3
    /\ IsIngress(sg_rules[1]) /\ sg_rules[1].IpProtocol = "tcp"
    /\ IsIngress(sg_rules[2]) /\ sg_rules[2].IpProtocol = "-1"
    /\ ~IsIngress(sg_rules[3])

-----------------------------------------------------------------------------
(* Properties of stop() *)

\* C17: stopped is terminal: once stop() has been called, no later operation
\* makes the active list non-empty again or puts instances in the warm pool.
C17_StoppedIsTerminal ==
    stopped => (instances = <<>> /\ warm_pool.instances = <<>>)

\* C18: right after stop() the active list is empty, every instance that was
\* active is stopped, and the warm pool, when there is one, has an empty
\* reserve and is in state stopped.
C18_StopStopsEverything ==
    last.op = "stop" =>
        /\ instances = <<>>
        /\ Len(last.log) = last.n0
        /\ \A i \in 1..Len(last.log) : last.log[i].status = "stopped"
        /\ HasWarmPool => warm_pool = [instances |-> <<>>, state |-> "stopped"]

\* stop() of a group that had active instances and a warm pool that was ready
C18_Witness ==
    /\ last.op = "stop" /\ last.n0 > 0
    /\ HasWarmPool
    /\ steps = 2
    /\ cfg.warm_pool_size > cfg.desired_capacity

-----------------------------------------------------------------------------
(* Frame of should_scale *)

\* C19: a call of should_scale that returns false, because of the cooldown or
\* because the threshold condition fails, leaves every field of the policy
\* unchanged; a call that returns true changes last_scaled_time only.
C19_FalseEvaluationKeepsPolicy ==
    [][/\ ~call'.result => policy' = policy
       /\ call'.result => policy' = [policy EXCEPT !.last_scaled_time = call'.t]]_vars

\* a call out of cooldown whose threshold condition failed, after a firing
C19_Witness ==
    /\ call.op = "should_scale" /\ ~call.result
    /\ call.since > 0
    /\ call.t - call.since >= policy.cooldown
    /\ policy.last_scaled_time = call.since

-----------------------------------------------------------------------------
(* Properties of _remove_instance *)

WithoutIndex(seq, k) == SubSeq(seq, 1, k - 1) \o SubSeq(seq, k + 1, Len(seq))

-----------------------------------------------------------------------------
(* Where a removed instance goes *)

\* the warm pool exists and holds fewer instances than its size
HasRoom == HasWarmPool /\ Len(warm_pool.instances) < cfg.warm_pool_size

\* C21: the instance _remove_instance removes is appended to the warm pool
\* exactly when a warm pool is configured and holds fewer instances than its
\* size at that moment; otherwise it is left in neither the active list nor
\* the warm pool; in both cases its status is "stopped" afterwards.
C21_RemovedIsPooledOrDropped ==
    [][(last'.op = "remove" /\ last'.ret.o # None)
       => LET x == last'.ret.o
              pooled == Append(Fields(obj, warm_pool.instances),
                               [obj[x] EXCEPT !.status = "stopped"])
          IN /\ last'.ret.status = "stopped"
             /\ \E k \in 1..Len(instances) :
                    /\ instances[k] = x
                    /\ x \notin Range(WithoutIndex(instances, k))
                    /\ Fields(obj', instances')
                           = Fields(obj, WithoutIndex(instances, k))
             /\ x \notin Range(warm_pool.instances)
             /\ Fields(obj', warm_pool'.instances)
                    = IF HasRoom THEN pooled
                      ELSE Fields(obj, warm_pool.instances)]_vars

\* an instance removed while the configured warm pool was full
C21_Witness ==
    /\ last.op = "remove"
    /\ last.ret.o # None
    /\ last.ret.status = "stopped"
    /\ HasWarmPool
    /\ Len(warm_pool.instances) = cfg.warm_pool_size
    /\ \A i \in 1..Len(warm_pool.instances) :
           obj[warm_pool.instances[i]].rid # last.ret.rid

-----------------------------------------------------------------------------
(* Properties of check_instance *)

\* C22: check_instance on an instance that is not running adds one to its
\* health_check_count, sets its health_status to "unhealthy" exactly when the
\* new count has reached the threshold, and returns false; on a running
\* instance it sets the count to 0 and the health_status to "healthy" and
\* returns true.  Hence an instance checked k times in a row while stopped is
\* unhealthy exactly when k >= threshold.
C22_CheckInstance ==
    /\ checks.op = "check_instance" =>
           IF checks.before.status # "running"
           THEN /\ subject.hcc = checks.before.hcc + 1
                /\ subject.health = IF subject.hcc >= health_check.threshold
                                    THEN "unhealthy" ELSE checks.before.health
                /\ checks.result = FALSE
           ELSE /\ subject.hcc = 0
                /\ subject.health = "healthy"
                /\ checks.result = TRUE
    /\ subject.health = "unhealthy" <=> checks.failed >= health_check.threshold

\* the check that reaches a threshold above one declares the instance unhealthy
C22_Witness ==
    /\ checks.op = "check_instance"
    /\ health_check.threshold > 1
    /\ checks.failed = health_check.threshold
    /\ checks.before.health = "healthy"
    /\ subject.health = "unhealthy"

-----------------------------------------------------------------------------
(* Properties of get_instances *)

\* the elements of seq that are not in the set gone, in the order of seq
RECURSIVE Without(_, _)
Without(seq, gone) ==
    IF seq = <<>> THEN <<>>
    ELSE IF Head(seq) \in gone THEN Without(Tail(seq), gone)
    ELSE <<Head(seq)>> \o Without(Tail(seq), gone)

-----------------------------------------------------------------------------
(* Size of the warm pool *)

\* C24: in a group started once the warm pool never holds more instances than
\* its size, whatever sequence of _add_instance, _remove_instance,
\* evaluate_metrics, check_health and maintain_size follows, although
\* add_instances itself tests no capacity.
C24_WarmPoolWithinSize == Len(warm_pool.instances) <= cfg.warm_pool_size

\* start() emptied a warm pool of several instances; one operation later an
\* instance is removed and the pool is full: maintain_size had filled it, and
\* the removed instance was not added
C24_Witness ==
    /\ cfg.warm_pool_size > 1
    /\ cfg.desired_capacity >= cfg.warm_pool_size
    /\ cfg.max_size >= cfg.warm_pool_size
    /\ steps = 3
    /\ last.op = "remove"
    /\ last.ret.o # None
    /\ Len(warm_pool.instances) = cfg.warm_pool_size

-----------------------------------------------------------------------------
(* Properties of one evaluate_metrics() cycle *)

\* C25: in one evaluate_metrics() cycle the mean cpu_utilization is taken once,
\* before any policy runs; should_scale is called on every scale-out policy in
\* list order and then on every scale-in policy in list order; and every call
\* receives that one mean, also after instances were added or removed earlier
\* in the cycle.
C25_OneMeanPerCycle ==
    [][last'.op = "evaluate_metrics"
       => LET f == last'.fired
              mean == AvgCpu(Cur)
              no == Len(scale_out_policies)
              ni == Len(scale_in_policies)
          IN /\ Len(f) = no + ni
             /\ \A k \in 1..no :
                    /\ f[k].list = "out" /\ f[k].i = k
                    /\ f[k].v = mean
                    /\ f[k].fired = ShouldScale(scale_out_policies[k], mean, now')[2]
             /\ \A k \in 1..ni :
                    /\ f[no + k].list = "in" /\ f[no + k].i = k
                    /\ f[no + k].v = mean
                    /\ f[no + k].fired
                           = ShouldScale(scale_in_policies[k], mean, now')[2]]_vars

\* the first scale-out policy fired and added an instance; the second one and
\* the scale-in policy after it were still given the mean over the instances
\* the cycle began with
C25_Witness ==
    /\ last.op = "evaluate_metrics"
    /\ Len(last.fired) = 3
    /\ last.fired[1].fired
    /\ Len(instances) = last.n0 + 1
    /\ last.fired[2].list = "out"
    /\ last.fired[2].fired
    /\ last.fired[3].list = "in"
    /\ last.fired[3].v = <<HighLoad * last.n0, last.n0>>

-----------------------------------------------------------------------------
(* Properties of a check_health() pass *)

\* the instances check_instance was applied to, in the order of the calls
Checked(log) == [i \in 1..Len(log) |-> log[i].x]

\* C26 as stated: a check_health() pass applies check_instance exactly once to
\* each instance that was in the active list when the pass began, in list
\* order: no instance is skipped or checked twice because of the removals and
\* additions of the pass, and no instance added during the pass is checked.
C26_EachInstanceCheckedOnce ==
    [][last'.op = "check_health" => Checked(last'.log) = instances]_vars

-----------------------------------------------------------------------------
(* A policy that has not fired yet *)

\* C27 as stated: a ScalingPolicy that has never fired is not held back by its
\* cooldown: should_scale at any time now >= 0, also now = 0 or now < cooldown,
\* returns true whenever the threshold condition holds.
C27_NewPolicyFiresAtOnce ==
    (call.op = "should_scale" /\ call.since = -1 /\ ThresholdHolds(policy, call.v))
        => call.result

-----------------------------------------------------------------------------
(* Removal of a failed instance under repeated health checks *)

\* every active instance is running: the failed one is no longer active
AllRunning == \A i \in 1..Len(instances) : obj[instances[i]].status = "running"

\* every check_health() pass that is called returns
PassesReturn == []<>(steps = 0)

\* C28 as stated: an active instance that has failed and stays so, in a group
\* that keeps more than min_size active instances, is eventually removed from
\* the active list by the repeated check_health() passes, whatever calls of
\* evaluate_metrics and simulate_traffic come between them.
C28_FailedInstanceEventuallyRemoved ==
    (PassesReturn /\ [](Len(instances) > cfg.min_size)) => <>AllRunning

-----------------------------------------------------------------------------
(* The upper bound of the active list *)

\* C29: the active list never holds more than max_size instances, whatever
\* sequence of start, _add_instance, _remove_instance, evaluate_metrics,
\* check_health and stop is run on a newly constructed group, start() called
\* again and a desired_capacity above max_size included.
C29_NeverAboveMaxSize == Len(instances) <= cfg.max_size

\* start() with a desired_capacity above max_size, called on a group that was
\* at max_size already: nothing was added
C29_Witness ==
    /\ last.op = "start"
    /\ cfg.desired_capacity > cfg.max_size
    /\ last.n0 = cfg.max_size
    /\ last.ret = NoRet
    /\ Len(instances) = cfg.max_size

-----------------------------------------------------------------------------
(* The capacity of the HTTP variant *)

\* the persisted state keeps DesiredCapacity within MinSize..MaxSize and one
\* mock instance for each unit of it
CapacityConsistent ==
    /\ asg_state.MinSize <= asg_state.DesiredCapacity
    /\ asg_state.DesiredCapacity <= asg_state.MaxSize
    /\ Len(asg_state.Instances) = asg_state.DesiredCapacity

\* a successful request of the given action saves
Succeeds(action) == RequestSaves /\ request.r.action = action

\* C30 as stated: MinSize <= DesiredCapacity <= MaxSize and len(Instances) =
\* DesiredCapacity hold for the persisted state after any sequence and
\* interleaving of manual scaling requests and passes of the background loop,
\* and every pass of the loop and every successful scale_out or scale_in
\* changes the persisted DesiredCapacity by exactly 1.
C30_CapacityChangesByOne ==
    /\ []CapacityConsistent
    /\ [][(LoopSaves \/ Succeeds("scale_out") \/ Succeeds("scale_in"))
            => asg_state'.DesiredCapacity - asg_state.DesiredCapacity \in {-1, 1}]_vars

\* C30 amended: the two invariants hold as stated; a pass of the loop saves a
\* DesiredCapacity that differs by at most 1 from the one it read, one more
\* only at a request rate of at least scale_out_threshold and one less only at
\* a rate of at most scale_in_threshold; a successful scale_out saves the
\* DesiredCapacity it read plus 1, a successful scale_in the one it read minus 1.
C30_CapacityWithinBounds ==
    /\ []CapacityConsistent
    /\ [][/\ LoopSaves =>
               LET d == asg_state'.DesiredCapacity - loop.asg.DesiredCapacity
               IN /\ d \in {-1, 0, 1}
                  /\ d = 1 => loop.rpm >= ScalingConfig.scale_out_threshold
                  /\ d = -1 => loop.rpm <= ScalingConfig.scale_in_threshold
          /\ Succeeds("scale_out")
                 => asg_state'.DesiredCapacity = request.asg.DesiredCapacity + 1
          /\ Succeeds("scale_in")
                 => asg_state'.DesiredCapacity = request.asg.DesiredCapacity - 1]_vars

\* a successful scale_in has taken the persisted state down to MinSize
C30_Witness ==
    /\ request.pc = "idle" /\ request.outcome = "success"
    /\ request.r.action = "scale_in"
    /\ asg_state.DesiredCapacity = asg_state.MinSize
    /\ Len(asg_state.Instances) = asg_state.MinSize

\* the instance ids of a list hold no id twice
UniqueIds(ob, seq) ==
    \A i, j \in 1..Len(seq) : i # j => ob[seq[i]].rid # ob[seq[j]].rid

\* C31: no two instances of the active list ever share an instance id, after
\* any sequence of start, add-instance, remove-instance, evaluate_metrics and
\* check_health.  Refuted: a fresh instance is numbered len(instances) + 1, the
\* number of an instance still active once an earlier one was removed.
C31_ActiveIdsUnique == UniqueIds(obj, instances)

-----------------------------------------------------------------------------
(* Ownership of the instance objects *)

\* no object occurs twice in the list
NoRepeats(seq) == \A i, j \in 1..Len(seq) : i # j => seq[i] # seq[j]

\* C32: in every state a group started once reaches by add-instance,
\* remove-instance, evaluate_metrics, check_health and maintain_size, no
\* instance object is both in the active list and in the warm-pool reserve,
\* and no instance object occurs twice in either list.
C32_ExclusiveOwnership ==
    /\ Range(instances) \cap Range(warm_pool.instances) = {}
    /\ NoRepeats(instances)
    /\ NoRepeats(warm_pool.instances)

\* a removal has handed an active instance to the reserve, while an instance
\* that came from the reserve is still active
C32_Witness ==
    /\ last.op = "remove"
    /\ last.ret.o # None
    /\ warm_pool.instances # <<>>
    /\ obj[warm_pool.instances[Len(warm_pool.instances)]].rid = last.ret.rid
    /\ \E i \in 1..Len(instances) : obj[instances[i]].rid[1] = "warm-instance"

-----------------------------------------------------------------------------
(* Run-state of the instances of the two lists *)

\* every instance of the reserve is stopped
ReserveStopped ==
    \A i \in 1..Len(warm_pool.instances) :
        obj[warm_pool.instances[i]].status = "stopped"

\* C33: every instance of the warm-pool reserve is stopped in every state; and
\* every instance of the active list is running as long as nothing but the
\* group's own operations changes a run-state: the active instances are all
\* running when start() returns, and every operation other than the drivers'
\* failure injection that begins with all of them running ends so.
C33_RunStateConsistent ==
    /\ AllRunning
    /\ []ReserveStopped
    /\ [][(AllRunning /\ last'.op # "fail") => AllRunning']_vars

\* a removal has recycled a running instance into the reserve, where it is
\* stopped, and a freshly created instance is active and running
C33_Witness ==
    /\ last.op = "remove"
    /\ last.ret.status = "stopped"
    /\ warm_pool.instances # <<>>
    /\ ReserveStopped
    /\ instances # <<>>
    /\ AllRunning
    /\ \E i \in 1..Len(instances) : obj[instances[i]].rid[1] = "instance"

-----------------------------------------------------------------------------
(* Outbound traffic under the default egress rule *)

-----------------------------------------------------------------------------
(* Length of a check_health() pass *)

\* C35: a check_health() pass ends, although it removes instances from and
\* appends instances to the list it iterates over: it makes at most max_size
\* plus the starting active count calls of check_instance; indeed never more
\* than the larger of the two, the list never growing beyond max_size.
C35_HealthPassBounded ==
    last.op = "check_health" =>
        /\ Len(last.log) <= cfg.max_size + last.n0
        /\ Len(last.log) <= Max(cfg.max_size, last.n0)

\* a pass that found an instance failed, removed an instance and appended one
C35_Witness ==
    /\ last.op = "check_health"
    /\ \E k \in 1..Len(last.log) :
           /\ ~last.log[k].ok
           /\ last.log[k].removed # None
           /\ last.log[k].added # None

-----------------------------------------------------------------------------
(* A policy that fires with the group at a bound *)

\* C36: a policy that fires in evaluate_metrics() has its last_scaled_time set
\* to the time of the cycle, also when nothing can be done: with the group at
\* max_size (scale-out) or at min_size (scale-in) the active list is left as
\* it was; and a policy whose last_scaled_time is less than cooldown ago does
\* not fire.
C36_FiringConsumesCooldown ==
    [][last'.op = "evaluate_metrics"
       => LET f == last'.fired
              before(e) == IF e.list = "out" THEN scale_out_policies[e.i]
                           ELSE scale_in_policies[e.i]
              after(e) == IF e.list = "out" THEN scale_out_policies'[e.i]
                          ELSE scale_in_policies'[e.i]
              fires(l) == \E k \in 1..Len(f) : f[k].list = l /\ f[k].fired
              unchanged == /\ last'.ret.o = None
                           /\ Fields(obj', instances') = Fields(obj, instances)
          IN /\ \A k \in 1..Len(f) :
                    /\ f[k].fired => after(f[k]).last_scaled_time = now'
                    /\ now' - before(f[k]).last_scaled_time < before(f[k]).cooldown
                           => ~f[k].fired
             /\ (fires("out") /\ Len(instances) = cfg.max_size) => unchanged
             /\ (fires("in") /\ Len(instances) = cfg.min_size) => unchanged]_vars

\* a scale-out policy has fired with the group at max_size
C36_Witness ==
    /\ last.op = "evaluate_metrics"
    /\ last.n0 = cfg.max_size
    /\ Len(instances) = cfg.max_size
    /\ \E k \in 1..Len(last.fired) :
           /\ last.fired[k].list = "out"
           /\ last.fired[k].fired
           /\ scale_out_policies[last.fired[k].i].last_scaled_time = now

-----------------------------------------------------------------------------
(* Where start() takes the first instances from *)

\* the places of the active list that hold an instance of the given kind of id
Named(kind) == {i \in 1..Len(instances) : obj[instances[i]].rid[1] = kind}

\* C37: when start() returns on a newly constructed group with a warm pool of
\* target size s, the active list holds min(desired_capacity, max_size) instances, of which the
\* first k = min(s, desired_capacity, max_size) are pool instances
\* (warm-instance-*) and the others freshly created ones (instance-*), and
\* the reserve holds the s - k pool instances left.
C37_StartDrawsFromPoolFirst ==
    (last.op = "start" /\ steps = 1) =>
        LET n == Min(cfg.desired_capacity, cfg.max_size)
            k == Min(cfg.warm_pool_size, n)
        IN /\ Len(instances) = n
           /\ Named("warm-instance") = 1..k
           /\ Named("instance") = (k + 1)..n
           /\ Len(warm_pool.instances) = cfg.warm_pool_size - k
           /\ \A i \in 1..Len(warm_pool.instances) :
                  obj[warm_pool.instances[i]].rid[1] = "warm-instance"

\* start() has emptied the warm pool and created a further instance
C37_Witness ==
    /\ last.op = "start"
    /\ steps = 1
    /\ HasWarmPool
    /\ warm_pool.instances = <<>>
    /\ Named("warm-instance") # {}
    /\ Named("instance") # {}

====
